---------------------------- MODULE Spec2Model ----------------------------
(***************************************************************************)
(* A model of the cache-first OCR orchestrator of document-ocr:            *)
(*   src/src/hooks/use-ocr.ts      getCacheKey, useOCRMutation.mutationFn   *)
(*   src/src/lib/query-client.ts   ocrKeys, generateBase64Hash, queryConfig *)
(*   src/src/lib/file-utils.ts     generateFileHash, fileToBase64, ...      *)
(*   src/src/lib/ocr-service.ts    OCRService                               *)
(*   src/unnamed/part_001          the zod validation schemas               *)
(*                                                                         *)
(* A JavaScript string is a sequence of one-character strings, so that     *)
(* slice, endsWith, includes, toLowerCase and the regular expressions are  *)
(* computed character by character.  A 32-bit integer is a pair            *)
(* <<high 16 bits, low 16 bits>> so that the wrap-around of the file hash  *)
(* is computed and never overflows the integers of the model checker.     *)
(***************************************************************************)
EXTENDS Integers, Sequences, FiniteSets, TLC

(***************************************************************************)
(* Strings                                                                 *)
(***************************************************************************)
UpperChars == <<"A","B","C","D","E","F","G","H","I","J","K","L","M",
                "N","O","P","Q","R","S","T","U","V","W","X","Y","Z">>

LowerChars == <<"a","b","c","d","e","f","g","h","i","j","k","l","m",
                "n","o","p","q","r","s","t","u","v","w","x","y","z">>

DigitChars == <<"0","1","2","3","4","5","6","7","8","9">>

Range(s) == {s[i] : i \in 1..Len(s)}

\* String.prototype.toLowerCase, one character
LowerChar(c) ==
  IF \E k \in 1..26 : UpperChars[k] = c
    THEN LowerChars[CHOOSE k \in 1..26 : UpperChars[k] = c]
    ELSE c

\* String.prototype.toLowerCase
toLowerCase(s) == [i \in 1..Len(s) |-> LowerChar(s[i])]

\* String.prototype.startsWith
startsWith(s, p) == Len(p) <= Len(s) /\ SubSeq(s, 1, Len(p)) = p

\* String.prototype.endsWith
endsWith(s, p) == Len(p) <= Len(s) /\ SubSeq(s, Len(s) - Len(p) + 1, Len(s)) = p

\* String.prototype.includes
includes(s, p) ==
  \E i \in 1..(Len(s) - Len(p) + 1) : SubSeq(s, i, i + Len(p) - 1) = p

\* String.prototype.slice(0, n) for n >= 0
sliceHead(s, n) == SubSeq(s, 1, IF n < Len(s) THEN n ELSE Len(s))

\* String.prototype.slice(-n) for n > 0
sliceTail(s, n) == SubSeq(s, (IF n < Len(s) THEN Len(s) - n ELSE 0) + 1, Len(s))

\* the character c repeated n times
Rep(c, n) == [i \in 1..n |-> c]

\* Number.prototype.toString() of a non-negative integer
RECURSIVE Decimal(_)
Decimal(n) ==
  IF n < 10 THEN <<DigitChars[n + 1]>>
            ELSE Decimal(n \div 10) \o <<DigitChars[(n % 10) + 1]>>

IsWhitespace(c) == c \in {" ", "\t", "\n", "\r"}

\* String.prototype.trim() has length > 0
trimNonEmpty(s) == \E i \in 1..Len(s) : ~IsWhitespace(s[i])

\* String.prototype.trim
trim(s) ==
  LET inked == {i \in 1..Len(s) : ~IsWhitespace(s[i])}
  IN  IF inked = {} THEN <<>>
      ELSE SubSeq(s, CHOOSE i \in inked : \A j \in inked : i <= j,
                     CHOOSE i \in inked : \A j \in inked : j <= i)

(***************************************************************************)
(* 32-bit integers as <<high half, low half>>, two's complement            *)
(***************************************************************************)
Half == 65536

Int32Zero == <<0, 0>>

\* (w << 5): the low 32 bits of w * 32
Shl5(w) ==
  LET l == w[2] * 32
  IN  <<(w[1] * 32 + (l \div Half)) % Half, l % Half>>

\* the low 32 bits of a - b
Sub32(a, b) ==
  LET l == a[2] - b[2]
      borrow == IF l < 0 THEN 1 ELSE 0
  IN  <<(a[1] - b[1] - borrow + Half) % Half, (l + Half) % Half>>

\* the low 32 bits of a + byte
AddByte32(a, byte) ==
  LET l == a[2] + byte
  IN  <<(a[1] + (l \div Half)) % Half, l % Half>>

\* the sign bit of a 32-bit integer
IsNegative32(w) == w[1] >= 32768

\* Math.abs of a signed 32-bit integer, as an unsigned magnitude (2^31 for -2^31)
Abs32(w) == IF IsNegative32(w) THEN Sub32(Int32Zero, w) ELSE w

Digits36 == DigitChars \o LowerChars

\* Number.prototype.toString(36) of an unsigned magnitude below 2^32
RECURSIVE ToString36(_)
ToString36(w) ==
  LET qhi == w[1] \div 36
      t   == (w[1] % 36) * Half + w[2]
      q   == <<qhi, t \div 36>>
      d   == <<Digits36[(t % 36) + 1]>>
  IN  IF q = Int32Zero THEN d ELSE ToString36(q) \o d

(***************************************************************************)
(* Validation schemas (validation-schemas, src/unnamed/part_001)           *)
(***************************************************************************)
VALID_IMAGE_TYPES ==
  {"image/png", "image/jpeg", "image/jpg", "image/avif", "image/webp", "image/gif"}

VALID_IMAGE_EXTENSIONS ==
  { <<".","p","n","g">>, <<".","j","p","g">>, <<".","j","p","e","g">>,
    <<".","a","v","i","f">>, <<".","w","e","b","p">>, <<".","g","i","f">> }

PDF_EXTENSION == <<".","p","d","f">>

MAX_FILE_SIZE == 10485760

\* pdfFileSchema.safeParse(file).success
pdfFileSchema(file) ==
  /\ file.size > 0
  /\ file.size <= MAX_FILE_SIZE
  /\ \/ file.type = "application/pdf"
     \/ endsWith(toLowerCase(file.name), PDF_EXTENSION)

\* imageFileSchema.safeParse(file).success
imageFileSchema(file) ==
  /\ file.size > 0
  /\ file.size <= MAX_FILE_SIZE
  /\ \/ file.type \in VALID_IMAGE_TYPES
     \/ \E ext \in VALID_IMAGE_EXTENSIONS : endsWith(toLowerCase(file.name), ext)

\* the code points the URL parser refuses in the host of an http(s) URL
ForbiddenHostChars ==
  {" ", "\t", "\n", "\r", "#", "/", "<", ">", "?", "@", "[", "\\", "]", "^", "|", "%"}

\* the text after the scheme of an http(s) URL: the slashes skipped, a host that
\* is not empty and holds no forbidden code point (new URL(url) does not throw)
HostParses(rest) ==
  LET slashes == {i \in 0..Len(rest) : \A j \in 1..i : rest[j] \in {"/", "\\"}}
      start   == CHOOSE i \in slashes : \A k \in slashes : k <= i
      stops   == {i \in (start + 1)..Len(rest) : rest[i] \in {"/", "\\", "?", "#"}}
      end     == IF stops = {} THEN Len(rest)
                 ELSE (CHOOSE i \in stops : \A k \in stops : i <= k) - 1
  IN  /\ end > start
      /\ \A i \in (start + 1)..end : rest[i] \notin ForbiddenHostChars

\* urlSchema: z.string().url() refined to protocol http: or https:
urlSchema(url) ==
  LET lower == toLowerCase(url)
      http  == <<"h","t","t","p",":">>
      https == <<"h","t","t","p","s",":">>
  IN  \/ startsWith(lower, http) /\ HostParses(SubSeq(url, 6, Len(url)))
      \/ startsWith(lower, https) /\ HostParses(SubSeq(url, 7, Len(url)))

\* pdfUrlSchema
pdfUrlSchema(url) ==
  /\ urlSchema(url)
  /\ LET urlLower == toLowerCase(url)
     IN  \/ endsWith(urlLower, PDF_EXTENSION)
         \/ includes(urlLower, PDF_EXTENSION \o <<"?">>)

\* imageUrlSchema
imageUrlSchema(url) ==
  /\ urlSchema(url)
  /\ LET urlLower == toLowerCase(url)
     IN  \E ext \in VALID_IMAGE_EXTENSIONS :
            endsWith(urlLower, ext) \/ includes(urlLower, ext \o <<"?">>)

Base64Alphabet == UpperChars \o LowerChars \o DigitChars \o <<"+", "/">>

BASE64_MIN_LENGTH == 50

Base64Chars == Range(Base64Alphabet)

\* the regular expression /^[A-Za-z0-9+/]+=*$/: one alphabet character or
\* more, then only "=" to the end
Base64Regex(s) ==
  /\ Len(s) >= 1
  /\ s[1] \in Base64Chars
  /\ \A i \in 1..Len(s) : s[i] \in Base64Chars \/ s[i] = "="
  /\ \A i \in 1..(Len(s) - 1) : s[i] = "=" => s[i + 1] = "="

\* base64Schema
base64Schema(s) == Len(s) >= BASE64_MIN_LENGTH /\ Base64Regex(s)

API_KEY_MIN_LENGTH == 10

\* apiKeySchema
apiKeySchema(key) == Len(key) >= API_KEY_MIN_LENGTH /\ trimNonEmpty(key)

\* fault variant of ocrResultSchema: a schema that accepts every result
ocrResultSchemaLax(result) == TRUE

\* ocrResultSchema.safeParse(result).success; an optional field that is
\* undefined is a field the record does not have
ocrResultSchema(result) ==
  /\ "pages" \in DOMAIN result => result.pages > 0
  /\ result.processingTime > 0

(***************************************************************************)
(* Cache keys (query-client.ts)                                            *)
(***************************************************************************)
\* ocrKeys.all
all == <<"ocr">>

\* ocrKeys.urlDocument
urlDocument(url) == all \o <<"url-document", url>>

\* ocrKeys.urlImage
urlImage(url) == all \o <<"url-image", url>>

\* ocrKeys.base64Document
base64Document(hash) == all \o <<"base64-document", hash>>

\* ocrKeys.base64Image
base64Image(hash) == all \o <<"base64-image", hash>>

\* ocrKeys.fileDocument
fileDocument(name, size, lastModified) ==
  all \o <<"file-document", name, size, lastModified>>

\* ocrKeys.fileImage
fileImage(name, size, lastModified) ==
  all \o <<"file-image", name, size, lastModified>>

DIGEST_THRESHOLD == 40

DIGEST_SLICE == 20

\* fault variant of generateBase64Hash: the length is left out of the digest
generateBase64HashNoLength(base64) ==
  IF Len(base64) < DIGEST_THRESHOLD
    THEN base64
    ELSE sliceHead(base64, DIGEST_SLICE) \o <<"-">> \o sliceTail(base64, DIGEST_SLICE)

\* fault variant of generateBase64Hash: the digest form for every length
generateBase64HashAlways(base64) ==
  sliceHead(base64, DIGEST_SLICE) \o <<"-">> \o Decimal(Len(base64))
    \o <<"-">> \o sliceTail(base64, DIGEST_SLICE)

\* generateBase64Hash
generateBase64Hash(base64) ==
  LET length == Len(base64)
  IN  IF length < DIGEST_THRESHOLD
        THEN base64
        ELSE sliceHead(base64, DIGEST_SLICE) \o <<"-">> \o Decimal(length)
               \o <<"-">> \o sliceTail(base64, DIGEST_SLICE)

(***************************************************************************)
(* Files (file-utils.ts).  A File is a record [name, type, size,           *)
(* lastModified, data]; data gives the bytes as a prefix, a fill byte and  *)
(* a suffix, so that a file larger than the hash sample stays small.       *)
(***************************************************************************)
\* the byte at 0-based offset i of the file
ByteAt(file, i) ==
  LET d == file.data
  IN  IF i < Len(d.prefix) THEN d.prefix[i + 1]
      ELSE IF i >= file.size - Len(d.suffix)
             THEN d.suffix[i - (file.size - Len(d.suffix)) + 1]
             ELSE d.fill

SAMPLE_SIZE == 8192

\* fault variant of HashStep: the accumulator is shifted and never subtracted
HashStepShiftOnly(hash, byte) == AddByte32(Shl5(hash), byte)

\* one round of the loop of generateFileHash:
\* hash = ((hash << 5) - hash) + byte; hash = hash & hash
HashStep(hash, byte) == AddByte32(Sub32(Shl5(hash), hash), byte)

\* the loop of generateFileHash over the sample bytes lo..hi (0-based), in
\* order; the range is halved only to keep the evaluation shallow
RECURSIVE HashLoop(_, _, _, _)
HashLoop(file, lo, hi, hash) ==
  IF lo > hi THEN hash
  ELSE IF lo = hi THEN HashStep(hash, ByteAt(file, lo))
  ELSE LET mid  == (lo + hi) \div 2
           left == HashLoop(file, lo, mid, hash)
       IN  IF left \in Seq(Int) THEN HashLoop(file, mid + 1, hi, left) ELSE left

\* fault variant of SampleLength: the whole file is sampled
SampleLengthWhole(file) == file.size

\* the bytes of file.slice(0, Math.min(SAMPLE_SIZE, file.size)), as a length
SampleLength(file) == IF SAMPLE_SIZE < file.size THEN SAMPLE_SIZE ELSE file.size

\* generateFileHash
generateFileHash(file) ==
  LET hash == HashLoop(file, 0, SampleLength(file) - 1, Int32Zero)
  IN  file.name \o <<"-">> \o Decimal(file.size) \o <<"-">> \o ToString36(Abs32(hash))

\* getMimeType
getMimeType(file) == IF file.type # "" THEN file.type ELSE "application/octet-stream"

\* isValidPdfFile
isValidPdfFile(file) == pdfFileSchema(file)

\* isValidImageFile
isValidImageFile(file) == imageFileSchema(file)

\* the length of the base64 text of n bytes
Base64Length(n) == 4 * ((n + 2) \div 3)

\* the character at 0-based offset j of the base64 text of the file's bytes
Base64CharAt(file, j) ==
  LET g  == j \div 4
      b0 == ByteAt(file, 3 * g)
      b1 == IF 3 * g + 1 < file.size THEN ByteAt(file, 3 * g + 1) ELSE 0
      b2 == IF 3 * g + 2 < file.size THEN ByteAt(file, 3 * g + 2) ELSE 0
      sextet == CASE j % 4 = 0 -> b0 \div 4
                  [] j % 4 = 1 -> (b0 % 4) * 16 + (b1 \div 16)
                  [] j % 4 = 2 -> (b1 % 16) * 4 + (b2 \div 64)
                  [] OTHER     -> b2 % 64
  IN  IF j % 4 >= 2 /\ 3 * g + (j % 4) - 1 >= file.size
        THEN "="
        ELSE Base64Alphabet[sextet + 1]

\* fileToBase64 when the read succeeds: the text after the comma of
\* FileReader.readAsDataURL's result
fileToBase64(file) == [j \in 1..Base64Length(file.size) |-> Base64CharAt(file, j - 1)]

\* fault variant of getCacheKey: the file's lastModified in the timestamp slot
getCacheKeyTimestamp(input) ==
  CASE input.type = "url-document"    -> urlDocument(input.url)
    [] input.type = "url-image"       -> urlImage(input.url)
    [] input.type = "base64-document" -> base64Document(generateBase64Hash(input.base64))
    [] input.type = "base64-image"    -> base64Image(generateBase64Hash(input.base64))
    [] input.type = "file" ->
         LET fileHash == generateFileHash(input.file)
         IN  IF isValidPdfFile(input.file)
               THEN fileDocument(fileHash, input.file.size, input.file.lastModified)
               ELSE fileImage(fileHash, input.file.size, input.file.lastModified)

\* getCacheKey
getCacheKey(input) ==
  CASE input.type = "url-document"    -> urlDocument(input.url)
    [] input.type = "url-image"       -> urlImage(input.url)
    [] input.type = "base64-document" -> base64Document(generateBase64Hash(input.base64))
    [] input.type = "base64-image"    -> base64Image(generateBase64Hash(input.base64))
    [] input.type = "file" ->
         LET fileHash == generateFileHash(input.file)
         IN  IF isValidPdfFile(input.file)
               THEN fileDocument(fileHash, input.file.size, 0)
               ELSE fileImage(fileHash, input.file.size, 0)

(***************************************************************************)
(* OCR service (ocr-service.ts).  A response of the external OCR API is a  *)
(* record with an optional page list; a page is [markdown, images].        *)
(***************************************************************************)
NO_TEXT_EXTRACTED ==
  <<"N","o"," ","t","e","x","t"," ","e","x","t","r","a","c","t","e","d"," ",
    "f","r","o","m"," ","d","o","c","u","m","e","n","t">>

NO_TEXT_FOUND ==
  <<"N","o"," ","t","e","x","t"," ","f","o","u","n","d"," ","i","n"," ","d",
    "o","c","u","m","e","n","t"," ","p","a","g","e","s">>

PAGE_DIVIDER == <<"\n","\n","-","-","-","\n","\n">>

\* Array.prototype.join
RECURSIVE join(_, _)
join(texts, sep) ==
  IF Len(texts) = 0 THEN <<>>
  ELSE IF Len(texts) = 1 THEN texts[1]
  ELSE texts[1] \o sep \o join(Tail(texts), sep)

\* OCRService.extractText
extractText(response) ==
  IF "pages" \notin DOMAIN response \/ Len(response.pages) = 0
    THEN NO_TEXT_EXTRACTED
    ELSE LET mapped == [p \in 1..Len(response.pages) |->
                          IF trimNonEmpty(response.pages[p].markdown)
                            THEN response.pages[p].markdown ELSE <<>>]
             NonBlank(text) == trimNonEmpty(text)
             extractedText == join(SelectSeq(mapped, NonBlank), PAGE_DIVIDER)
         IN  IF trimNonEmpty(extractedText) THEN extractedText ELSE NO_TEXT_FOUND

\* the images of pages 1..n, in page order
RECURSIVE ImagesUpTo(_, _)
ImagesUpTo(pages, n) ==
  IF n = 0 THEN <<>>
  ELSE ImagesUpTo(pages, n - 1)
         \o (IF "images" \in DOMAIN pages[n] THEN pages[n].images ELSE <<>>)

\* OCRService.extractImages
extractImages(response) ==
  IF "pages" \notin DOMAIN response THEN <<>>
  ELSE ImagesUpTo(response.pages, Len(response.pages))

\* the result object an entry point builds from the response and the elapsed
\* time; pages is response.pages?.length
BuildResult(response, processingTime) ==
  IF "pages" \in DOMAIN response
    THEN [text |-> extractText(response), pages |-> Len(response.pages),
          processingTime |-> processingTime, images |-> extractImages(response)]
    ELSE [text |-> extractText(response),
          processingTime |-> processingTime, images |-> extractImages(response)]

\* what an entry point does once the external call has settled: the error of a
\* failed call is thrown on, the result of a successful one is returned only
\* if ocrResultSchema.parse accepts it
EntryPointSettles(outcome) ==
  IF outcome.kind = "error"
    THEN [ok |-> FALSE, error |-> "ExternalCallError"]
    ELSE LET result == BuildResult(outcome.response, outcome.elapsed)
         IN  IF ocrResultSchema(result)
               THEN [ok |-> TRUE, result |-> result]
               ELSE [ok |-> FALSE, error |-> "ZodError:result"]

\* fault variant of EntryPointValidates: entry points that parse nothing
EntryPointSkipsValidation(entry, payload) == TRUE

\* the schema each entry point parses its payload with before the call
EntryPointValidates(entry, payload) ==
  CASE entry = "processDocumentUrl"    -> pdfUrlSchema(payload)
    [] entry = "processImageUrl"       -> imageUrlSchema(payload)
    [] entry = "processBase64Document" -> base64Schema(payload)
    [] entry = "processBase64Image"    -> base64Schema(payload)

(***************************************************************************)
(* The input classifier (file-utils.ts)                                    *)
(***************************************************************************)
\* fault variant of validateUrl: every text passes for a URL
validateUrlLax(url) == TRUE

\* validateUrl
validateUrl(url) == urlSchema(url)

\* a character that "." of a regular expression does not match
IsLineTerminator(c) == c \in {"\n", "\r"}

DATA_SCHEME == <<"d","a","t","a",":">>

BASE64_MARKER == <<";","b","a","s","e","6","4",",">>

\* the match of /^data:([^;]+);base64,(.+)$/ in a one-element list, <<>> when
\* there is none: the first group is the text up to the first ";", which is
\* not empty, and the second the text after the marker, which is not empty
\* and holds no line terminator
DataUrlMatch(s) ==
  LET semis == {i \in 1..Len(s) : s[i] = ";"}
  IN  IF ~startsWith(s, DATA_SCHEME) \/ semis = {} THEN <<>>
      ELSE LET semi == CHOOSE i \in semis : \A j \in semis : i <= j
               rest == SubSeq(s, semi, Len(s))
           IN  IF semi > Len(DATA_SCHEME) + 1 /\ startsWith(rest, BASE64_MARKER)
                 THEN LET group2 == SubSeq(rest, Len(BASE64_MARKER) + 1, Len(rest))
                      IN  IF /\ Len(group2) >= 1
                             /\ \A i \in 1..Len(group2) : ~IsLineTerminator(group2[i])
                            THEN <<[mimeType |-> SubSeq(s, Len(DATA_SCHEME) + 1, semi - 1),
                                    base64 |-> group2]>>
                            ELSE <<>>
                 ELSE <<>>

\* dataUrlSchema.safeParse(s).success
dataUrlSchema(s) == DataUrlMatch(s) # <<>>

\* isDataUrl
isDataUrl(url) == dataUrlSchema(url)

\* extractBase64FromDataUrl: the groups in a one-element list, <<>> for null
extractBase64FromDataUrl(dataUrl) ==
  IF ~dataUrlSchema(dataUrl) THEN <<>> ELSE DataUrlMatch(dataUrl)

\* the extensions of the regular expression of detectInputType
DetectImageExtensions ==
  { <<".","p","n","g">>, <<".","j","p","g">>, <<".","j","p","e","g">>,
    <<".","a","v","i","f">>, <<".","w","e","b","p">>, <<".","g","i","f">> }

\* fault variant of ImageExtensionRegex: the extension at the very end only
ImageExtensionRegexAtEnd(s) ==
  \E ext \in DetectImageExtensions : endsWith(toLowerCase(s), ext)

\* /\.(png|jpe?g|avif|webp|gif)(\?|$)/i.test(s)
ImageExtensionRegex(s) ==
  LET lower == toLowerCase(s)
  IN  \E ext \in DetectImageExtensions :
        \E i \in 1..(Len(lower) - Len(ext) + 1) :
           /\ SubSeq(lower, i, i + Len(ext) - 1) = ext
           /\ i + Len(ext) - 1 = Len(lower) \/ lower[i + Len(ext)] = "?"

RAW_BASE64_LENGTH == 50

\* fault variant of IsRawBase64: the length test of the adapter's schema
IsRawBase64Inclusive(s) == Len(s) >= RAW_BASE64_LENGTH /\ Base64Regex(s)

\* trimmedInput.length > 50 && /^[A-Za-z0-9+/]+=*$/.test(trimmedInput)
IsRawBase64(s) == Len(s) > RAW_BASE64_LENGTH /\ Base64Regex(s)

PDF_SIGNATURE == <<"J","V","B","E","R","i","0">>

PNG_SIGNATURE == <<"i","V","B","O","R","w","0","K","G","g","o">>

JPEG_SIGNATURE == <<"/","9","j","/">>

GIF_SIGNATURE == <<"R","0","l","G","O","D">>

IMAGE_MIME_PREFIX == <<"i","m","a","g","e","/">>

PDF_MIME == <<"a","p","p","l","i","c","a","t","i","o","n","/","p","d","f">>

Detected(inputType, contentType, value) ==
  [inputType |-> inputType, contentType |-> contentType, value |-> value]

\* fault variant of DetectDataUrl: the data URL is returned whole
DetectDataUrlWhole(trimmedInput, extracted) ==
  Detected("base64",
           IF startsWith(extracted.mimeType, IMAGE_MIME_PREFIX) THEN "image"
           ELSE IF extracted.mimeType = PDF_MIME THEN "pdf" ELSE "unknown",
           trimmedInput)

\* the data URL branch of detectInputType
DetectDataUrl(trimmedInput, extracted) ==
  Detected("base64",
           IF startsWith(extracted.mimeType, IMAGE_MIME_PREFIX) THEN "image"
           ELSE IF extracted.mimeType = PDF_MIME THEN "pdf" ELSE "unknown",
           extracted.base64)

\* detectInputType
detectInputType(input) ==
  LET trimmedInput == trim(input)
      urlLower     == toLowerCase(trimmedInput)
      extracted    == extractBase64FromDataUrl(trimmedInput)
  IN  IF validateUrl(trimmedInput)
        THEN IF endsWith(urlLower, PDF_EXTENSION) \/ includes(urlLower, PDF_EXTENSION \o <<"?">>)
               THEN Detected("url", "pdf", trimmedInput)
             ELSE IF ImageExtensionRegex(urlLower)
               THEN Detected("url", "image", trimmedInput)
               ELSE Detected("url", "unknown", trimmedInput)
      ELSE IF isDataUrl(trimmedInput) /\ extracted # <<>>
        THEN DetectDataUrl(trimmedInput, extracted[1])
      ELSE IF IsRawBase64(trimmedInput)
        THEN IF startsWith(trimmedInput, PDF_SIGNATURE)
               THEN Detected("base64", "pdf", trimmedInput)
             ELSE IF \/ startsWith(trimmedInput, PNG_SIGNATURE)
                     \/ startsWith(trimmedInput, JPEG_SIGNATURE)
                     \/ startsWith(trimmedInput, GIF_SIGNATURE)
               THEN Detected("base64", "image", trimmedInput)
               ELSE Detected("base64", "unknown", trimmedInput)
      ELSE Detected("unknown", "unknown", trimmedInput)

(***************************************************************************)
(* hasMultipleUrls (file-utils.ts).  A global regular expression is given  *)
(* by the end of its match at each start (0 for no match); match and       *)
(* replace take the leftmost matches that do not overlap.                  *)
(***************************************************************************)
\* [\s,;]
IsDelimiter(c) == IsWhitespace(c) \/ c \in {",", ";"}

Letters == Range(UpperChars) \cup Range(LowerChars)

\* [a-z] under the flag i
IsLetter(c) == c \in Letters

\* [a-z0-9] under the flag i
IsAlnum(c) == c \in Letters \cup Range(DigitChars)

\* \w
IsWordChar(c) == IsAlnum(c) \/ c = "_"

\* \b between s[i - 1] and s[i], for i in 1..Len(s) + 1
WordBoundary(s, i) ==
  (i > 1 /\ IsWordChar(s[i - 1])) # (i <= Len(s) /\ IsWordChar(s[i]))

\* the end of the greedy [^\s,;]* from s[i] on; i - 1 when it is empty
RunEnd(s, i) ==
  LET stops == {j \in i..Len(s) : IsDelimiter(s[j])}
  IN  IF stops = {} THEN Len(s)
      ELSE (CHOOSE j \in stops : \A k \in stops : j <= k) - 1

\* the text p stands at s[i]
StartsAt(s, i, p) == i + Len(p) - 1 <= Len(s) /\ SubSeq(s, i, i + Len(p) - 1) = p

\* fullUrlPattern /https?:\/\/[^\s,;]+/gi
FullUrlEnd(s, i) ==
  LET lower == toLowerCase(s)
      n == IF StartsAt(lower, i, <<"h","t","t","p","s",":","/","/">>) THEN 8
           ELSE IF StartsAt(lower, i, <<"h","t","t","p",":","/","/">>) THEN 7
           ELSE 0
  IN  IF n > 0 /\ RunEnd(s, i + n) >= i + n THEN RunEnd(s, i + n) ELSE 0

\* [a-z0-9]([a-z0-9-]*[a-z0-9])?(\.[a-z0-9]([a-z0-9-]*[a-z0-9])?)* matches
\* all of d: labels of letters, digits and inner hyphens, joined by dots
IsDottedLabels(d) ==
  /\ Len(d) >= 1
  /\ \A k \in 1..Len(d) : IsAlnum(d[k]) \/ d[k] \in {"-", "."}
  /\ IsAlnum(d[1])
  /\ IsAlnum(d[Len(d)])
  /\ \A k \in 1..Len(d) : d[k] = "." => IsAlnum(d[k - 1]) /\ IsAlnum(d[k + 1])

\* wwwPattern: \bwww\. then dotted labels, a dot, two letters or more, and
\* the rest of the run
WwwEnd(s, i) ==
  IF /\ WordBoundary(s, i)
     /\ StartsAt(toLowerCase(s), i, <<"w","w","w",".">>)
     /\ \E k \in (i + 4)..(Len(s) - 3) :
          /\ IsDottedLabels(SubSeq(s, i + 4, k))
          /\ s[k + 1] = "."
          /\ IsLetter(s[k + 2])
          /\ IsLetter(s[k + 3])
    THEN RunEnd(s, i)
    ELSE 0

DomainExtensions ==
  { <<".","p","d","f">>, <<".","p","n","g">>, <<".","j","p","g">>, <<".","j","p","e","g">>,
    <<".","a","v","i","f">>, <<".","w","e","b","p">>, <<".","g","i","f">> }

\* the ends of \/[^\s,;]+\.(pdf|png|jpe?g|avif|webp|gif)\b for the slash at
\* s[slash]
PathEnds(s, slash) ==
  {q \in (slash + 1)..RunEnd(s, slash + 1) :
     /\ WordBoundary(s, q + 1)
     /\ \E ext \in DomainExtensions :
          /\ q - Len(ext) + 1 >= slash + 2
          /\ StartsAt(toLowerCase(s), q - Len(ext) + 1, ext)}

\* the slashes at which ([a-z0-9]([a-z0-9-]*[a-z0-9])?\.)+[a-z]{2,} from s[i]
\* on can end
DomainSlashes(s, i) ==
  {slash \in (i + 4)..Len(s) :
     /\ s[slash] = "/"
     /\ \E k \in (i + 1)..(slash - 3) :
          /\ s[k] = "."
          /\ IsDottedLabels(SubSeq(s, i, k - 1))
          /\ \A m \in (k + 1)..(slash - 1) : IsLetter(s[m])}

\* domainPattern: the greedy [^\s,;]+ gives the last of the ends
DomainEnd(s, i) ==
  LET ends == UNION {PathEnds(s, slash) : slash \in DomainSlashes(s, i)}
  IN  IF WordBoundary(s, i) /\ ends # {}
        THEN CHOOSE q \in ends : \A r \in ends : r <= q
        ELSE 0

\* the starts of the matches of String.prototype.match with the flag g
MatchStarts(s, End(_, _)) ==
  LET ends == [i \in 1..Len(s) |-> End(s, i)]
  IN  {i \in 1..Len(s) : ends[i] > 0 /\ \A j \in 1..(i - 1) : ends[j] < i}

\* String.prototype.replace(pattern, '') with the flag g
RemoveMatches(s, End(_, _)) ==
  LET starts == MatchStarts(s, End)
      keep   == {i \in 1..Len(s) : \A j \in starts : i < j \/ End(s, j) < i}
  IN  IF starts = {} THEN s
      ELSE [n \in 1..Cardinality(keep) |->
              s[CHOOSE i \in keep : Cardinality({j \in keep : j <= i}) = n]]

\* fault variant of TotalMatches: every pattern is matched against the whole
\* input, the matches of the earlier patterns are not removed
TotalMatchesOverlapping(input) ==
  Cardinality(MatchStarts(input, FullUrlEnd))
    + Cardinality(MatchStarts(input, WwwEnd))
    + Cardinality(MatchStarts(input, DomainEnd))

\* totalMatches of hasMultipleUrls
TotalMatches(input) ==
  LET fullUrlMatches == MatchStarts(input, FullUrlEnd)
      remaining1     == RemoveMatches(input, FullUrlEnd)
      wwwMatches     == MatchStarts(remaining1, WwwEnd)
      remaining2     == RemoveMatches(remaining1, WwwEnd)
      domainMatches  == MatchStarts(remaining2, DomainEnd)
  IN  Cardinality(fullUrlMatches) + Cardinality(wwwMatches) + Cardinality(domainMatches)

\* hasMultipleUrls
hasMultipleUrls(input) == TotalMatches(input) > 1

(***************************************************************************)
(* The inputs and the outcomes the model draws from                        *)
(***************************************************************************)
PDF_URL == <<"h","t","t","p","s",":","/","/","a",".","c","o","m","/","x",".","p","d","f">>

PNG_URL == <<"h","t","t","p","s",":","/","/","a",".","c","o","m","/","x",".","p","n","g","?","q","=","1">>

NOEXT_URL == <<"h","t","t","p","s",":","/","/","a",".","c","o","m","/","x">>

\* 60 characters of base64 with the PDF signature
B64_PDF == PDF_SIGNATURE \o Rep("A", 53)

\* B64_PDF with one character outside the alphabet in the middle: the same
\* length, first 20 and last 20 characters
B64_BAD == PDF_SIGNATURE \o Rep("A", 23) \o <<"!">> \o Rep("A", 29)

\* 60 characters of base64 with the PNG signature
B64_PNG == PNG_SIGNATURE \o Rep("B", 49)

\* 49 characters: one short of the minimum
B64_SHORT == PNG_SIGNATURE \o Rep("B", 38)

PDF_BYTES == [prefix |-> <<37, 80, 68, 70, 45>>, fill |-> 32, suffix |-> <<10>>]

PNG_BYTES == [prefix |-> <<137, 80, 78, 71>>, fill |-> 255, suffix |-> <<>>]

File(name, type, size, lastModified, data) ==
  [name |-> name, type |-> type, size |-> size, lastModified |-> lastModified,
   data |-> data]

\* the Input Descriptors (OCRInputType) submitted in the model, by name
Inputs ==
  [ urlDoc      |-> [type |-> "url-document", url |-> PDF_URL],
    urlDocBad   |-> [type |-> "url-document", url |-> NOEXT_URL],
    urlImg      |-> [type |-> "url-image", url |-> PNG_URL],
    urlImgBad   |-> [type |-> "url-image", url |-> PDF_URL],
    b64Doc      |-> [type |-> "base64-document", base64 |-> B64_PDF,
                     mimeType |-> "application/pdf"],
    b64DocBad   |-> [type |-> "base64-document", base64 |-> B64_BAD,
                     mimeType |-> "application/pdf"],
    b64Img      |-> [type |-> "base64-image", base64 |-> B64_PNG,
                     mimeType |-> "image/jpeg"],
    b64ImgShort |-> [type |-> "base64-image", base64 |-> B64_SHORT,
                     mimeType |-> "image/jpeg"],
    filePdf     |-> [type |-> "file", file |->
                     File(<<"a",".","p","d","f">>, "application/pdf", 40, 1, PDF_BYTES)],
    filePdfLater |-> [type |-> "file", file |->
                     File(<<"a",".","p","d","f">>, "application/pdf", 40, 2, PDF_BYTES)],
    filePdfRenamed |-> [type |-> "file", file |->
                     File(<<"b",".","p","d","f">>, "application/pdf", 40, 1, PDF_BYTES)],
    fileScanPdf |-> [type |-> "file", file |->
                     File(<<"s","c","a","n">>, "application/pdf", 40, 1, PDF_BYTES)],
    fileScanPng |-> [type |-> "file", file |->
                     File(<<"s","c","a","n">>, "image/png", 40, 1, PDF_BYTES)],
    fileBig     |-> [type |-> "file", file |->
                     File(<<"b","i","g",".","p","n","g">>, "image/png", 8200, 1,
                          [PNG_BYTES EXCEPT !.suffix = <<1>>])],
    fileBigTail |-> [type |-> "file", file |->
                     File(<<"b","i","g",".","p","n","g">>, "image/png", 8200, 2,
                          [PNG_BYTES EXCEPT !.suffix = <<2>>])],
    fileTiny    |-> [type |-> "file", file |->
                     File(<<"t",".","p","n","g">>, "image/png", 3, 1, PNG_BYTES)],
    fileTxt     |-> [type |-> "file", file |->
                     File(<<"n","o","t","e","s",".","t","x","t">>, "text/plain", 40, 1, PDF_BYTES)] ]

InputIds == DOMAIN Inputs

\* the inputs of one behaviour are drawn from one family of related inputs:
\* inputs that share a URL, a digest, a file name or file bytes.  Inputs of
\* different families have different keys and never meet in the cache.
InputFamilies ==
  { {"urlDoc", "urlDocBad", "urlImgBad"},
    {"urlImg", "b64Img", "b64ImgShort"},
    {"b64Doc", "b64DocBad"},
    {"filePdf", "filePdfLater"},
    {"filePdf", "filePdfRenamed"},
    {"fileTiny", "fileTxt"},
    {"fileBig"} }

\* the API keys the hook is given, by name
ApiKeys == [valid |-> Rep("k", 10), short |-> Rep("k", 9)]

ApiKeyIds == DOMAIN ApiKeys

TEXT_PAGE == [markdown |-> <<"H","i">>, images |-> <<"img">>]

\* what the external OCR API may answer, with the milliseconds Date.now()
\* advanced by while the call was awaited
Outcomes ==
  { [kind |-> "ok", response |-> [pages |-> <<TEXT_PAGE>>], elapsed |-> 5],
    [kind |-> "ok", response |-> [model |-> "mistral-ocr-latest"], elapsed |-> 3],
    [kind |-> "ok", response |-> [pages |-> <<>>], elapsed |-> 5],
    [kind |-> "ok", response |-> [pages |-> <<TEXT_PAGE>>], elapsed |-> 0],
    [kind |-> "error"] }

(***************************************************************************)
(* The query cache (QueryClient) and the mutation (use-ocr.ts)             *)
(***************************************************************************)
MaxInvocations == 2

MUTATION_RETRY == 1

VARIABLES
  family, \* the inputs that are submitted in this behaviour
  apiKey, \* the API key the hook useOCRMutation(apiKey) was given, by name
  cache,  \* the query cache: a function from the cache keys present to Results
  inv,    \* inv[i]: the i-th submission (mutate) and its current run of mutationFn
  sinceClear, \* whether a recorded clearAll ran since the last cache lookup, and a store since
  stale,  \* the cache keys whose entry was written staleTime (10 minutes) ago or earlier
  pair,   \* two inputs handed to getCacheKey, by name
  keys,   \* keys[n]: the key getCacheKey returned for pair[n], NoKey before
  text,   \* a string handed to generateBase64Hash
  digest, \* what generateBase64Hash returned for it, in a one-element list
  answer, \* what the external OCR API answers to an entry point
  returned, \* how the entry point settled on that answer, in a one-element list
  typed,    \* the text typed or pasted into the input box
  detected, \* what detectInputType returned for it, in a one-element list
  multiple, \* what hasMultipleUrls returned for it, in a one-element list
  submitted, \* what handleProcessText handed to mutate for it, once it has run
  fold,     \* the loop of generateFileHash over one file: offset, accumulator, result
  localStorage, \* the browser storage: a function from the item names present to values
  apiKeyState,  \* the module's credential in memory
  envApiKey,    \* import.meta.env.VITE_MISTRAL_API_KEY || ''
  lastCall,     \* the last operation of the credential store and how it went
  cleared,      \* whether clearApiKey was performed since the last saveApiKey
  saved         \* the key of a saveApiKey that returned, no save or clear called since

vars == <<family, apiKey, cache, inv, sinceClear, stale, pair, keys, text, digest, answer, returned,
          typed, detected, multiple, submitted, fold,
          localStorage, apiKeyState, envApiKey, lastCall, cleared, saved>>

\* the variables of the credential store
storeVars == <<localStorage, apiKeyState, envApiKey, lastCall, cleared, saved>>

\* the variables of the classifier under test
classifierVars == <<typed, detected, multiple, submitted>>

\* the variables of the adapter entry point under test
adapterVars == <<answer, returned>>

\* the variables of the pure functions, which the mutation leaves alone
pureVars == <<pair, keys, text, digest, adapterVars, classifierVars, fold>>

\* the variables of the mutation, which the pure functions leave alone
mutationVars == <<family, apiKey, cache, inv, sinceClear, stale>>

Slots == 1..MaxInvocations

\* the value of a variable that holds undefined
Undefined == [undefined |-> TRUE]

NoKey == <<>>

\* fault variant of getQueryData: a lookup that never finds an entry
getQueryDataMiss(c, key) == Undefined

\* queryClient.getQueryData
getQueryData(c, key) == IF key \in DOMAIN c THEN c[key] ELSE Undefined

\* queryClient.setQueryData
setQueryData(c, key, result) ==
  [k \in DOMAIN c \cup {key} |-> IF k = key THEN result ELSE c[k]]

\* a query key matches a filter key that is a prefix of it
MatchesPrefix(key, prefix) ==
  Len(prefix) <= Len(key) /\ SubSeq(key, 1, Len(prefix)) = prefix

\* fault variant of removeQueries: only the entry whose key is the filter key
\* is removed
removeQueriesExact(c, prefix) ==
  [k \in {q \in DOMAIN c : q # prefix} |-> c[k]]

\* queryClient.removeQueries({ queryKey: prefix })
removeQueries(c, prefix) ==
  [k \in {q \in DOMAIN c : ~MatchesPrefix(q, prefix)} |-> c[k]]

\* the keys and the adapter calls of the inputs, computed once for each input
KeyOf == [id \in InputIds |-> getCacheKey(Inputs[id])]

\* fault variant of AdapterCall: a file goes to the image entry point only
\* when it is a valid image
AdapterCallImageFirst(input) ==
  CASE input.type = "url-document" ->
         [entry |-> "processDocumentUrl", payload |-> input.url]
    [] input.type = "url-image" ->
         [entry |-> "processImageUrl", payload |-> input.url]
    [] input.type = "base64-document" ->
         [entry |-> "processBase64Document", payload |-> input.base64]
    [] input.type = "base64-image" ->
         [entry |-> "processBase64Image", payload |-> input.base64]
    [] input.type = "file" ->
         [entry |-> IF isValidImageFile(input.file)
                      THEN "processBase64Image" ELSE "processBase64Document",
          payload |-> fileToBase64(input.file)]

\* the switch of mutationFn: the entry point an input is sent to and the
\* payload it is given (for a file, the base64 text of its bytes)
AdapterCall(input) ==
  CASE input.type = "url-document" ->
         [entry |-> "processDocumentUrl", payload |-> input.url]
    [] input.type = "url-image" ->
         [entry |-> "processImageUrl", payload |-> input.url]
    [] input.type = "base64-document" ->
         [entry |-> "processBase64Document", payload |-> input.base64]
    [] input.type = "base64-image" ->
         [entry |-> "processBase64Image", payload |-> input.base64]
    [] input.type = "file" ->
         [entry |-> IF isValidPdfFile(input.file)
                      THEN "processBase64Document" ELSE "processBase64Image",
          payload |-> fileToBase64(input.file)]

\* the entry point of each input and whether it accepts the payload
CallOf ==
  [id \in InputIds |->
     LET call == AdapterCall(Inputs[id])
     IN  [entry |-> call.entry,
          valid |-> EntryPointValidates(call.entry, call.payload)]]

IsFile(id) == Inputs[id].type = "file"

\* a submission that has not been made
IdleSlot ==
  [pc |-> "idle", input |-> "none", attempt |-> 0,
   key |-> NoKey, seen |-> <<>>, calls |-> 0, entry |-> "none",
   result |-> Undefined, error |-> "none",
   cachedAtStart |-> FALSE, storedBefore |-> {},
   sampled |-> 0, encoded |-> 0, seenStale |-> FALSE]

\* mutationFn throws: the retryer runs it again after retryDelay while the
\* failure count is below retry, and only then reports the error
Throw(s, error) ==
  [s EXCEPT !.pc = IF s.attempt < MUTATION_RETRY THEN "retrywait" ELSE "failed",
            !.error = error]

\* fault variant of CallAdapter: a run that finds a request for the same key
\* in flight waits for that request and sends none of its own
CallAdapterCoalesced(s) ==
  LET call == CallOf[s.input]
      s1   == [s EXCEPT !.entry = call.entry]
  IN  IF ~call.valid THEN Throw(s1, "ZodError:payload")
      ELSE IF \E j \in Slots : inv[j].pc = "calling" /\ inv[j].key = s.key
        THEN [s1 EXCEPT !.pc = "calling"]
        ELSE [s1 EXCEPT !.pc = "calling", !.calls = @ + 1]

\* the switch of mutationFn for a payload that is at hand: the entry point
\* validates it and either throws or sends the one request and awaits it
CallAdapter(s) ==
  LET call == CallOf[s.input]
      s1   == [s EXCEPT !.entry = call.entry]
  IN  IF call.valid
        THEN [s1 EXCEPT !.pc = "calling", !.calls = @ + 1]
        ELSE Throw(s1, "ZodError:payload")

\* mutationFn from the cache lookup to its next await
AfterKey(s, c, apiKeyId) ==
  LET key        == KeyOf[s.input]
      cachedData == getQueryData(c, key)
      s1 == [s EXCEPT !.key = key,
                      !.seen = IF key \in DOMAIN c THEN <<c[key]>> ELSE <<>>,
                      !.seenStale = key \in stale]
  IN  IF cachedData # Undefined
        THEN [s1 EXCEPT !.pc = "done", !.result = cachedData]
      ELSE IF ~apiKeySchema(ApiKeys[apiKeyId])
        THEN Throw(s1, "ZodError:apiKey")
      ELSE IF IsFile(s.input)
        THEN [s1 EXCEPT !.pc = "reading"]
        ELSE CallAdapter(s1)

\* fault variant of BeginRun: a file is read in full before its key is computed
BeginRunReadFirst(s, c, apiKeyId) ==
  IF IsFile(s.input) THEN [s EXCEPT !.pc = "reading"] ELSE AfterKey(s, c, apiKeyId)

\* a run of mutationFn up to its first await that is not a microtask: for a
\* file the read of the hash sample, otherwise the external call
BeginRun(s, c, apiKeyId) ==
  IF IsFile(s.input) THEN [s EXCEPT !.pc = "hashing"] ELSE AfterKey(s, c, apiKeyId)

\* the slots whose run has stored its result under this key
StoredUnder(key) ==
  {j \in Slots : inv[j].pc = "done" /\ inv[j].seen = <<>> /\ inv[j].key = key}

\* fault variant of CacheAfterCall: the result is returned and never stored
CacheAfterCallNoStore(c, key, settled) == c

\* fault variant of CacheAfterCall: a failure is stored as well
CacheAfterCallAlways(c, key, settled) ==
  setQueryData(c, key, IF settled.ok THEN settled.result
                                      ELSE [text |-> settled.error, processingTime |-> 1])

\* the cache after the awaited entry point has settled: setQueryData on a
\* result, nothing on a throw
CacheAfterCall(c, key, settled) ==
  IF settled.ok THEN setQueryData(c, key, settled.result) ELSE c

\* ocrMutation.mutate(input): the i-th submission starts its first run
Mutate(i, id) ==
  /\ inv[i].pc = "idle"
  /\ i > 1 => inv[i - 1].pc # "idle"
  /\ inv' = [inv EXCEPT ![i] =
       BeginRun([IdleSlot EXCEPT !.input = id,
                                 !.cachedAtStart = KeyOf[id] \in DOMAIN cache,
                                 !.storedBefore = StoredUnder(KeyOf[id])], cache, apiKey)]
  /\ sinceClear' = IF IsFile(id) THEN sinceClear ELSE "no"
  /\ UNCHANGED <<family, apiKey, cache, stale, pureVars, storeVars>>

\* the retry timer fires: mutationFn runs again with the same input
Retry(i) ==
  /\ inv[i].pc = "retrywait"
  /\ inv' = [inv EXCEPT ![i] =
       BeginRun([IdleSlot EXCEPT !.input = inv[i].input,
                                 !.attempt = inv[i].attempt + 1,
                                 !.cachedAtStart = KeyOf[inv[i].input] \in DOMAIN cache,
                                 !.storedBefore = StoredUnder(KeyOf[inv[i].input])], cache, apiKey)]
  /\ sinceClear' = IF IsFile(inv[i].input) THEN sinceClear ELSE "no"
  /\ UNCHANGED <<family, apiKey, cache, stale, pureVars, storeVars>>

\* the sample read of generateFileHash settles
HashSettles(i, ok) ==
  /\ inv[i].pc = "hashing"
  /\ inv' = [inv EXCEPT ![i] =
       IF ok THEN AfterKey([inv[i] EXCEPT !.sampled = SampleLength(Inputs[inv[i].input].file)],
                           cache, apiKey)
             ELSE Throw(inv[i], "NotReadableError")]
  /\ sinceClear' = IF ok THEN "no" ELSE sinceClear
  /\ UNCHANGED <<family, apiKey, cache, stale, pureVars, storeVars>>

\* the FileReader of fileToBase64 settles
ReadSettles(i, ok) ==
  /\ inv[i].pc = "reading"
  /\ inv' = [inv EXCEPT ![i] =
       IF ok THEN CallAdapter([inv[i] EXCEPT !.encoded = Inputs[inv[i].input].file.size])
             ELSE Throw(inv[i], "Error:Failed to read file")]
  /\ UNCHANGED <<family, apiKey, cache, sinceClear, stale, pureVars, storeVars>>

\* the external call settles: the entry point returns or throws, and
\* mutationFn stores and returns the result
Respond(i, outcome) ==
  /\ inv[i].pc = "calling"
  /\ LET settled == EntryPointSettles(outcome)
     IN  /\ cache' = CacheAfterCall(cache, inv[i].key, settled)
         /\ inv' = [inv EXCEPT ![i] =
              IF settled.ok
                THEN [inv[i] EXCEPT !.pc = "done", !.result = settled.result]
                ELSE Throw(inv[i], settled.error)]
         /\ sinceClear' = IF settled.ok /\ sinceClear = "clean" THEN "dirty" ELSE sinceClear
         /\ stale' = IF settled.ok THEN stale \ {inv[i].key} ELSE stale
  /\ UNCHANGED <<family, apiKey, pureVars, storeVars>>

\* the cache garbage-collects an entry (gcTime after it was last used)
Evict(key) ==
  /\ key \in DOMAIN cache
  /\ cache' = [k \in DOMAIN cache \ {key} |-> cache[k]]
  /\ stale' = stale \ {key}
  /\ UNCHANGED <<family, apiKey, inv, sinceClear, pureVars, storeVars>>

\* useClearOCRCache().clearAll
ClearAll ==
  /\ cache' = removeQueries(cache, all)
  /\ stale' = stale \cap DOMAIN removeQueries(cache, all)
  /\ UNCHANGED <<family, apiKey, inv, sinceClear, pureVars, storeVars>>

\* useClearOCRCache().clearAll, with the history of it recorded
ClearAllRecorded ==
  /\ cache' = removeQueries(cache, all)
  /\ stale' = stale \cap DOMAIN removeQueries(cache, all)
  /\ sinceClear' = "clean"
  /\ UNCHANGED <<family, apiKey, inv, pureVars, storeVars>>

\* getCacheKey is not under test
KeysIdle == pair = <<>> /\ keys = <<>>

\* generateBase64Hash is not under test
DigestIdle == text = <<>> /\ digest = <<>>

\* no adapter entry point is under test
AdapterIdle == answer = <<>> /\ returned = <<>>

\* the classifier is not under test
ClassifierIdle == typed = <<>> /\ detected = <<>> /\ multiple = <<>> /\ submitted = <<>>

\* the credential store of a page just loaded in a fresh browser with no
\* credential in the build
StoreIdle ==
  /\ localStorage = <<>>
  /\ apiKeyState = ""
  /\ envApiKey = ""
  /\ lastCall = [op |-> "load", failed |-> FALSE, threw |-> FALSE, emitted |-> FALSE]
  /\ cleared = "none"
  /\ saved = <<>>

\* generateFileHash is not stepped through
FoldIdle == fold = <<>>

\* no pure function is under test while the mutation runs
PureIdle == KeysIdle /\ DigestIdle /\ AdapterIdle /\ ClassifierIdle /\ FoldIdle

\* no submission is made while a pure function is under test
MutationIdle ==
  /\ family = {}
  /\ apiKey = "valid"
  /\ cache = <<>>
  /\ inv = [i \in Slots |-> IdleSlot]
  /\ sinceClear = "no"
  /\ stale = {}

Init ==
  /\ family \in InputFamilies
  /\ apiKey \in ApiKeyIds
  /\ cache = <<>>
  /\ inv = [i \in Slots |-> IdleSlot]
  /\ sinceClear = "no"
  /\ stale = {}
  /\ PureIdle
  /\ StoreIdle

Next ==
  \/ \E i \in Slots, id \in family : Mutate(i, id)
  \/ \E i \in Slots : Retry(i)
  \/ \E i \in Slots, ok \in BOOLEAN : HashSettles(i, ok)
  \/ \E i \in Slots, ok \in BOOLEAN : ReadSettles(i, ok)
  \/ \E i \in Slots, outcome \in Outcomes : Respond(i, outcome)
  \/ \E key \in DOMAIN cache : Evict(key)
  \/ ClearAll

Spec == Init /\ [][Next]_vars

\* the same submissions, with sinceClear recording every clearAll
NextRecorded ==
  \/ \E i \in Slots, id \in family : Mutate(i, id)
  \/ \E i \in Slots : Retry(i)
  \/ \E i \in Slots, ok \in BOOLEAN : HashSettles(i, ok)
  \/ \E i \in Slots, ok \in BOOLEAN : ReadSettles(i, ok)
  \/ \E i \in Slots, outcome \in Outcomes : Respond(i, outcome)
  \/ \E key \in DOMAIN cache : Evict(key)
  \/ ClearAllRecorded

SpecRecorded == Init /\ [][NextRecorded]_vars

\* ten minutes have passed since the entry of this key was written
GrowStale(key) ==
  /\ key \in DOMAIN cache
  /\ key \notin stale
  /\ stale' = stale \cup {key}
  /\ UNCHANGED <<family, apiKey, cache, inv, sinceClear, pureVars, storeVars>>

\* the same submissions, with the age of the cache entries
NextAged ==
  \/ \E i \in Slots, id \in family : Mutate(i, id)
  \/ \E i \in Slots : Retry(i)
  \/ \E i \in Slots, ok \in BOOLEAN : HashSettles(i, ok)
  \/ \E i \in Slots, ok \in BOOLEAN : ReadSettles(i, ok)
  \/ \E i \in Slots, outcome \in Outcomes : Respond(i, outcome)
  \/ \E key \in DOMAIN cache : Evict(key)
  \/ ClearAll
  \/ \E key \in DOMAIN cache : GrowStale(key)

SpecAged == Init /\ [][NextAged]_vars

(***************************************************************************)
(* getCacheKey applied to pairs of inputs                                  *)
(***************************************************************************)
\* getCacheKey(pair[n]) returns
ComputeKey(n) ==
  /\ keys[n] = NoKey
  /\ keys' = [keys EXCEPT ![n] = KeyOf[pair[n]]]
  /\ UNCHANGED <<mutationVars, pair, text, digest, adapterVars, classifierVars, fold, storeVars>>

InitKeys ==
  /\ pair \in InputIds \X InputIds
  /\ keys = <<NoKey, NoKey>>
  /\ DigestIdle /\ AdapterIdle /\ ClassifierIdle /\ FoldIdle
  /\ MutationIdle
  /\ StoreIdle

NextKeys == \E n \in {1, 2} : ComputeKey(n)

SpecKeys == InitKeys /\ [][NextKeys]_vars

(***************************************************************************)
(* generateFileHash stepped through its loop, one sample byte a step       *)
(***************************************************************************)
FileIds == {id \in InputIds : IsFile(id)}

\* the low 32 bits of w * 31 + byte, by multiplication
Times31Plus(w, byte) ==
  LET l == w[2] * 31 + byte
  IN  <<(w[1] * 31 + (l \div Half)) % Half, l % Half>>

\* one round of the for loop: bytes[fold.pos] enters the accumulator; the
\* product by 31 is kept beside it
HashRound ==
  LET file == Inputs[fold.file].file
      byte == ByteAt(file, fold.pos)
  IN  /\ fold.out = <<>>
      /\ fold.pos < SampleLength(file)
      /\ fold' = [fold EXCEPT !.pos = @ + 1,
                              !.hash = HashStep(@, byte),
                              !.reference = Times31Plus(@, byte)]
      /\ UNCHANGED <<mutationVars, pair, keys, text, digest, adapterVars, classifierVars,
                     storeVars>>

\* the loop is over: the template string is returned
HashReturn ==
  LET file == Inputs[fold.file].file
  IN  /\ fold.out = <<>>
      /\ fold.pos = SampleLength(file)
      /\ fold' = [fold EXCEPT !.out = <<file.name \o <<"-">> \o Decimal(file.size) \o <<"-">>
                                         \o ToString36(Abs32(fold.hash))>>]
      /\ UNCHANGED <<mutationVars, pair, keys, text, digest, adapterVars, classifierVars,
                     storeVars>>

InitHash ==
  /\ fold \in [file : FileIds, pos : {0}, hash : {Int32Zero}, reference : {Int32Zero},
               out : {<<>>}]
  /\ KeysIdle /\ DigestIdle /\ AdapterIdle /\ ClassifierIdle
  /\ MutationIdle
  /\ StoreIdle

NextHash == HashRound \/ HashReturn

SpecHash == InitHash /\ [][NextHash]_vars

(***************************************************************************)
(* generateBase64Hash applied to strings of every length up to             *)
(* MaxDigestLen                                                            *)
(***************************************************************************)
MaxDigestLen == 42

\* the n-character string that walks through the base64 alphabet from its
\* k-th character on, in steps of k
AlphabetWalk(n, k) ==
  [i \in 1..n |-> Base64Alphabet[((k * i) % Len(Base64Alphabet)) + 1]]

DigestTexts == {AlphabetWalk(n, k) : n \in 0..MaxDigestLen, k \in 0..2}

\* generateBase64Hash(text) returns
Digest ==
  /\ digest = <<>>
  /\ digest' = <<generateBase64Hash(text)>>
  /\ UNCHANGED <<mutationVars, pair, keys, text, adapterVars, classifierVars, fold, storeVars>>

InitDigest ==
  /\ text \in DigestTexts
  /\ digest = <<>>
  /\ KeysIdle /\ AdapterIdle /\ ClassifierIdle /\ FoldIdle
  /\ MutationIdle
  /\ StoreIdle

NextDigest == Digest

SpecDigest == InitDigest /\ [][NextDigest]_vars

(***************************************************************************)
(* An adapter entry point applied to answers of the external OCR API with  *)
(* page lists of every length up to MaxPages                               *)
(***************************************************************************)
MaxPages == 2

PLAIN_PAGE == [markdown |-> <<"Y","o">>, images |-> <<>>]

BLANK_PAGE == [markdown |-> <<" ","\n">>, images |-> <<>>]

EMPTY_PAGE == [markdown |-> <<>>, images |-> <<"img">>]

PageKinds == {TEXT_PAGE, PLAIN_PAGE, BLANK_PAGE, EMPTY_PAGE}

PageLists == UNION {[1..n -> PageKinds] : n \in 0..MaxPages}

\* the milliseconds Date.now() may advance by while the call is awaited
ElapsedTimes == {0, 1, 5}

Answers ==
  {[kind |-> "error"]}
    \cup {[kind |-> "ok", response |-> [pages |-> pages], elapsed |-> ms] :
            pages \in PageLists, ms \in ElapsedTimes}
    \cup {[kind |-> "ok", response |-> [model |-> "mistral-ocr-latest"], elapsed |-> ms] :
            ms \in ElapsedTimes}

\* the awaited client.ocr.process settles and the entry point returns or
\* throws
Settle ==
  /\ returned = <<>>
  /\ returned' = <<EntryPointSettles(answer)>>
  /\ UNCHANGED <<mutationVars, pair, keys, text, digest, answer, classifierVars, fold, storeVars>>

InitAdapter ==
  /\ answer \in Answers
  /\ returned = <<>>
  /\ KeysIdle /\ DigestIdle /\ ClassifierIdle /\ FoldIdle
  /\ MutationIdle
  /\ StoreIdle

NextAdapter == Settle

SpecAdapter == InitAdapter /\ [][NextAdapter]_vars

(***************************************************************************)
(* The texts the classifier is given: URL-like texts, data URLs, raw       *)
(* base64 of the lengths up to MaxRawLen, and texts with several URLs      *)
(***************************************************************************)
MaxRawLen == 52

\* a URL or what looks like one: a stem, an extension or none, a query
\* string, a fragment or nothing
UrlTexts ==
  LET UrlStems ==
        { <<"h","t","t","p","s",":","/","/","a",".","c","o","m","/","x">>,
          <<"H","T","T","P",":","/","/","A",".","C","O","M","/","X">>,
          <<"h","t","t","p",":","/","/","b",".","o","r","g","/","d","/","y">>,
          <<"f","t","p",":","/","/","a",".","c","o","m","/","x">>,
          <<"h","t","t","p","s",":","/","/">>,
          <<"a",".","c","o","m","/","x">>,
          <<"w","w","w",".","a",".","c","o","m","/","x">> }
      UrlEndings ==
        { <<>>,
          <<".","p","d","f">>,
          <<".","P","D","F">>,
          <<".","p","n","g">>,
          <<".","j","p","g">>,
          <<".","j","p","e","g">>,
          <<".","a","v","i","f">>,
          <<".","w","e","b","p">>,
          <<".","g","i","f">>,
          <<".","t","x","t">>,
          <<".","p","d","f","x">> }
      UrlTails == { <<>>,
                    <<"?","q","=","1">>,
                    <<"#","p">>,
                    <<"?","f","=","y",".","p","d","f">> }
  IN  {stem \o ending \o tail : stem \in UrlStems, ending \in UrlEndings, tail \in UrlTails}

\* data URLs, well formed and not
DataUrlTexts ==
  LET DataSchemes == { <<"d","a","t","a",":">>,
          <<"D","A","T","A",":">> }
      DataMimes ==
        { <<"i","m","a","g","e","/","p","n","g">>,
          <<"i","m","a","g","e","/">>,
          <<"I","M","A","G","E","/","P","N","G">>,
          <<"a","p","p","l","i","c","a","t","i","o","n","/","p","d","f">>,
          <<"a","p","p","l","i","c","a","t","i","o","n","/","p","d","f","x">>,
          <<"t","e","x","t","/","p","l","a","i","n">>,
          <<>>,
          <<"i","m","a","g","e","/","p","n","g",";","c","h","a","r","s","e","t","=","u","t","f","-","8">> }
      DataPayloads == { <<"Q","U","J","D">>,
                        <<>>,
                        <<"Q","U","\n","J","D">>,
                        <<"a",",","b",";","c">>,
                        B64_PNG,
                        B64_BAD }
  IN  {scheme \o mime \o BASE64_MARKER \o payload :
         scheme \in DataSchemes, mime \in DataMimes, payload \in DataPayloads}

\* raw base64 and near misses on both sides of the length test: n
\* characters, the head filled up with "A", the last ones replaced by the tail
RawTexts ==
  LET RawHeads == {PDF_SIGNATURE, PNG_SIGNATURE, JPEG_SIGNATURE, GIF_SIGNATURE, <<"Q","U","J","D">>, <<"=">>,
                   Rep("=", MaxRawLen)}
      RawTails == { <<>>,
                    <<"=">>,
                    <<"=","=">>,
                    <<"!">>,
                    <<"=","A">>,
                    <<" ">> }
      RawText(head, n, tail) ==
        LET body == sliceHead(head \o Rep("A", n), n)
        IN  IF Len(tail) <= n THEN sliceHead(body, n - Len(tail)) \o tail ELSE body
      RawLengths == (RAW_BASE64_LENGTH - 2)..MaxRawLen
  IN  {RawText(head, n, tail) : head \in RawHeads, n \in RawLengths, tail \in RawTails}

\* texts with their matches of fullUrlPattern, of wwwPattern in what remains
\* and of domainPattern in what remains then, counted by hand
UrlCountCases ==
  { [text |-> <<"h","t","t","p",":","/","/","a",".","c","o","m","/","x",".","p","d","f">>,
     full |-> 1, www |-> 0, bare |-> 0],
    [text |-> <<"s","e","e"," ","h","t","t","p",":","/","/","a",".","c","o","m","/","x",".","p","d","f"," ","a","n","d"," ","h","t","t","p",":","/","/","b",".","c","o","m","/","y",".","p","n","g">>,
     full |-> 2, www |-> 0, bare |-> 0],
    [text |-> <<"h","t","t","p","s",":","/","/","w","w","w",".","a",".","c","o","m","/","x",".","p","d","f">>,
     full |-> 1, www |-> 0, bare |-> 0],
    [text |-> <<"h","t","t","p","s",":","/","/","a",".","c","o","m","/","x",".","p","d","f">>,
     full |-> 1, www |-> 0, bare |-> 0],
    [text |-> <<"h","t","t","p","s",":","/","/","a",".","c","o","m","/","x",".","p","d","f"," ","h","t","t","p",":","/","/","b",".","o","r","g","/","y",".","p","n","g">>,
     full |-> 2, www |-> 0, bare |-> 0],
    [text |-> <<"h","t","t","p","s",":","/","/","a",".","c","o","m","/","x",".","p","d","f","\n","h","t","t","p","s",":","/","/","b",".","o","r","g","/","y",".","p","n","g">>,
     full |-> 2, www |-> 0, bare |-> 0],
    [text |-> <<"h","t","t","p","s",":","/","/","a",".","c","o","m","/","x",".","p","d","f",",","h","t","t","p","s",":","/","/","b",".","o","r","g","/","y",".","p","n","g">>,
     full |-> 2, www |-> 0, bare |-> 0],
    [text |-> <<"h","t","t","p","s",":","/","/","a",".","c","o","m","/","x",".","p","d","f","h","t","t","p","s",":","/","/","b",".","o","r","g","/","y",".","p","n","g">>,
     full |-> 1, www |-> 0, bare |-> 0],
    [text |-> <<"H","T","T","P","S",":","/","/","A",".","C","O","M","/","X",".","P","D","F",";"," ","w","w","w",".","b",".","o","r","g">>,
     full |-> 1, www |-> 1, bare |-> 0],
    [text |-> <<"w","w","w",".","a",".","c","o","m">>,
     full |-> 0, www |-> 1, bare |-> 0],
    [text |-> <<"w","w","w",".","a",".","c","o","m"," ","w","w","w",".","b","-","c",".","o","r","g","/","p">>,
     full |-> 0, www |-> 2, bare |-> 0],
    [text |-> <<"s","e","e"," ","w","w","w",".","a",".","c","o","m","/","x",".","p","d","f"," ","a","n","d"," ","b",".","o","r","g","/","y",".","p","n","g">>,
     full |-> 0, www |-> 1, bare |-> 1],
    [text |-> <<"a",".","c","o","m","/","x",".","p","d","f">>,
     full |-> 0, www |-> 0, bare |-> 1],
    [text |-> <<"a",".","c","o","m","/","x",".","p","d","f"," ","b",".","o","r","g","/","d","/","y",".","j","p","e","g">>,
     full |-> 0, www |-> 0, bare |-> 2],
    [text |-> <<"a",".","c","o","m","/","x",".","p","d","f","/","b",".","o","r","g","/","y",".","p","n","g">>,
     full |-> 0, www |-> 0, bare |-> 1],
    [text |-> <<"a",".","c","o","m","/","x",".","t","x","t">>,
     full |-> 0, www |-> 0, bare |-> 0],
    [text |-> <<"a",".","c","o","m"," ","x",".","p","d","f">>,
     full |-> 0, www |-> 0, bare |-> 0],
    [text |-> <<"a",".","c","o","m","/",".","p","d","f">>,
     full |-> 0, www |-> 0, bare |-> 0],
    [text |-> <<"a",".","c","o","m","/","x",".","p","d","f","s"," ","b",".","o","r","g","/","y",".","j","p","g">>,
     full |-> 0, www |-> 0, bare |-> 1],
    [text |-> <<"a",".","c","/","x",".","p","d","f">>,
     full |-> 0, www |-> 0, bare |-> 0],
    [text |-> <<"-","a",".","c","o","m","/","x",".","g","i","f"," ","a","-",".","c","o","m","/","y",".","g","i","f">>,
     full |-> 0, www |-> 0, bare |-> 1],
    [text |-> <<"h","t","t","p",":","/","/"," ","h","t","t","p","s",":","/","/">>,
     full |-> 0, www |-> 0, bare |-> 0],
    [text |-> <<"h","e","l","l","o"," ","w","o","r","l","d">>,
     full |-> 0, www |-> 0, bare |-> 0],
    [text |-> <<>>,
     full |-> 0, www |-> 0, bare |-> 0],
    [text |-> <<"x","w","w","w",".","a",".","c","o","m"," ","w","w","w",".","b">>,
     full |-> 0, www |-> 0, bare |-> 0],
    [text |-> <<"s","u","b",".","a",".","c","o","m","/","x",".","w","e","b","p"," ","h","t","t","p","s",":","/","/","b",".","o","r","g">>,
     full |-> 1, www |-> 0, bare |-> 1],
    [text |-> <<"a",".","c","o","m","/","x",".","p","d","f","h","t","t","p","s",":","/","/","b",".","o","r","g","/","y",".","p","n","g">>,
     full |-> 1, www |-> 0, bare |-> 1] }

\* every text as it is and with whitespace around it
TypedTexts ==
  LET Paddings == {<<<<>>, <<>>>>, <<<<" ","\t">>, <<"\r","\n">>>>}
  IN  {pad[1] \o t \o pad[2] :
         pad \in Paddings,
         t \in UrlTexts \cup DataUrlTexts \cup RawTexts \cup {c.text : c \in UrlCountCases}}

\* detectInputType(typed) returns
Detect ==
  /\ detected = <<>>
  /\ detected' = <<detectInputType(typed)>>
  /\ UNCHANGED <<mutationVars, pair, keys, text, digest, adapterVars, typed, multiple, submitted,
               fold, storeVars>>

\* fault variant of handleProcessText: every URL is submitted as an image
handleProcessTextAsImage(textInput) ==
  LET det == detectInputType(textInput)
  IN  IF ~trimNonEmpty(textInput) THEN <<>>
      ELSE IF det.inputType = "unknown" THEN <<>>
      ELSE IF det.inputType = "url" /\ det.contentType = "unknown" THEN <<>>
      ELSE IF det.inputType = "url" THEN <<[type |-> "url-image", url |-> det.value]>>
      ELSE IF det.contentType = "pdf"
        THEN <<[type |-> "base64-document", base64 |-> det.value,
                mimeType |-> "application/pdf"]>>
        ELSE <<[type |-> "base64-image", base64 |-> det.value, mimeType |-> "image/jpeg"]>>

\* handleProcessText for the text in the input box: the Input Descriptor it
\* hands to ocrMutation.mutate in a one-element list, <<>> when it returns
\* without a submission
handleProcessText(textInput) ==
  LET det == detectInputType(textInput)
  IN  IF ~trimNonEmpty(textInput) THEN <<>>
      ELSE IF det.inputType = "unknown" THEN <<>>
      ELSE IF det.inputType = "url" /\ det.contentType = "unknown" THEN <<>>
      ELSE IF det.inputType = "url"
        THEN IF det.contentType = "pdf"
               THEN <<[type |-> "url-document", url |-> det.value]>>
               ELSE <<[type |-> "url-image", url |-> det.value]>>
      ELSE IF det.contentType = "pdf"
        THEN <<[type |-> "base64-document", base64 |-> det.value,
                mimeType |-> "application/pdf"]>>
        ELSE <<[type |-> "base64-image", base64 |-> det.value, mimeType |-> "image/jpeg"]>>

\* the Process button is pressed with this text in the box
ProcessText ==
  /\ submitted = <<>>
  /\ submitted' = [input |-> handleProcessText(typed)]
  /\ UNCHANGED <<mutationVars, pair, keys, text, digest, adapterVars, typed, detected,
                 multiple, fold, storeVars>>

\* hasMultipleUrls(typed) returns
CountUrls ==
  /\ multiple = <<>>
  /\ multiple' = <<hasMultipleUrls(typed)>>
  /\ UNCHANGED <<mutationVars, pair, keys, text, digest, adapterVars, typed, detected, submitted,
               fold, storeVars>>

InitClassifier ==
  /\ typed \in TypedTexts
  /\ detected = <<>>
  /\ multiple = <<>>
  /\ submitted = <<>>
  /\ KeysIdle /\ DigestIdle /\ AdapterIdle /\ FoldIdle
  /\ MutationIdle
  /\ StoreIdle

NextClassifier == Detect \/ CountUrls \/ ProcessText

SpecClassifier == InitClassifier /\ [][NextClassifier]_vars

(***************************************************************************)
(* The credential store (use-api-key)                                      *)
(***************************************************************************)
API_KEY_STORAGE_KEY == "mistral-api-key"

API_KEY_CLEARED_FLAG == "mistral-api-key-cleared"

\* localStorage.getItem(name): the value in a one-element list, <<>> for null
getItem(storage, name) ==
  IF name \in DOMAIN storage THEN <<storage[name]>> ELSE <<>>

\* localStorage.setItem(name, value)
setItem(storage, name, value) ==
  [n \in DOMAIN storage \cup {name} |-> IF n = name THEN value ELSE storage[n]]

\* localStorage.removeItem(name)
removeItem(storage, name) ==
  [n \in DOMAIN storage \ {name} |-> storage[n]]

\* which of the storage calls of an operation throws: none, the first or the
\* second
FailurePoints == {0, 1, 2}

\* fault variant of getStoredApiKey: the cleared flag is not looked at
getStoredApiKeyNoFlag(storage, env, failAt) ==
  LET storedKey == getItem(storage, API_KEY_STORAGE_KEY)
  IN  IF failAt # 0 THEN env
      ELSE IF storedKey # <<>> /\ storedKey[1] # "" THEN storedKey[1] ELSE env

\* getStoredApiKey
getStoredApiKey(storage, env, failAt) ==
  LET wasCleared == getItem(storage, API_KEY_CLEARED_FLAG) = <<"true">>
      storedKey  == getItem(storage, API_KEY_STORAGE_KEY)
  IN  IF failAt = 1 THEN env
      ELSE IF wasCleared THEN ""
      ELSE IF failAt = 2 THEN env
      ELSE IF storedKey # <<>> /\ storedKey[1] # "" THEN storedKey[1] ELSE env

\* what an operation leaves behind: the storage, the credential in memory,
\* whether it threw to its caller and whether emitChange ran
Outcome(storage, state, threw, emitted) ==
  [storage |-> storage, state |-> state, threw |-> threw, emitted |-> emitted]

\* fault variant of saveApiKey: the state is set and the listeners are told
\* before the storage is written
saveApiKeyEager(storage, state, key, failAt) ==
  IF failAt = 1 THEN Outcome(storage, key, TRUE, TRUE)
  ELSE IF failAt = 2
    THEN Outcome(setItem(storage, API_KEY_STORAGE_KEY, key), key, TRUE, TRUE)
  ELSE Outcome(removeItem(setItem(storage, API_KEY_STORAGE_KEY, key), API_KEY_CLEARED_FLAG),
               key, FALSE, TRUE)

\* fault variant of saveApiKey: the cleared flag is left in the storage
saveApiKeyKeepFlag(storage, state, key, failAt) ==
  IF failAt = 0 THEN Outcome(setItem(storage, API_KEY_STORAGE_KEY, key), key, FALSE, TRUE)
  ELSE Outcome(storage, state, TRUE, FALSE)

\* saveApiKey
saveApiKey(storage, state, key, failAt) ==
  IF failAt = 1 THEN Outcome(storage, state, TRUE, FALSE)
  ELSE IF failAt = 2
    THEN Outcome(setItem(storage, API_KEY_STORAGE_KEY, key), state, TRUE, FALSE)
  ELSE Outcome(removeItem(setItem(storage, API_KEY_STORAGE_KEY, key), API_KEY_CLEARED_FLAG),
               key, FALSE, TRUE)

\* clearApiKey
clearApiKey(storage, state, failAt) ==
  IF failAt = 1 THEN Outcome(storage, state, FALSE, FALSE)
  ELSE IF failAt = 2
    THEN Outcome(removeItem(storage, API_KEY_STORAGE_KEY), state, FALSE, FALSE)
  ELSE Outcome(setItem(removeItem(storage, API_KEY_STORAGE_KEY), API_KEY_CLEARED_FLAG, "true"),
               "", FALSE, TRUE)

\* the credentials a user types
TypedKeys == {"", "sk-user-one", "sk-user-two"}

\* the credentials a build carries
EnvKeys == {"", "sk-env"}

Called(op, failed, threw, emitted) ==
  [op |-> op, failed |-> failed, threw |-> threw, emitted |-> emitted]

\* the page is loaded again: the module is evaluated and the state set from
\* getStoredApiKey()
Load ==
  \E failAt \in FailurePoints :
     /\ failAt = 2 => getItem(localStorage, API_KEY_CLEARED_FLAG) # <<"true">>
     /\ apiKeyState' = getStoredApiKey(localStorage, envApiKey, failAt)
     /\ lastCall' = Called("load", failAt # 0, FALSE, FALSE)
     /\ UNCHANGED <<localStorage, envApiKey, cleared, saved>>
     /\ UNCHANGED <<mutationVars, pureVars>>

\* setApiKey(key)
SetApiKey ==
  \E key \in TypedKeys :
     /\ apiKeyState' = key
     /\ lastCall' = Called("setApiKey", FALSE, FALSE, TRUE)
     /\ UNCHANGED <<localStorage, envApiKey, cleared, saved>>
     /\ UNCHANGED <<mutationVars, pureVars>>

\* saveApiKey(key)
SaveApiKey ==
  \E key \in TypedKeys, failAt \in FailurePoints :
     LET out == saveApiKey(localStorage, apiKeyState, key, failAt)
     IN  /\ localStorage' = out.storage
         /\ apiKeyState' = out.state
         /\ lastCall' = Called("saveApiKey", failAt # 0, out.threw, out.emitted)
         /\ cleared' = "none"
         /\ saved' = IF out.threw THEN <<>> ELSE <<key>>
         /\ UNCHANGED envApiKey
         /\ UNCHANGED <<mutationVars, pureVars>>

\* clearApiKey()
ClearApiKey ==
  \E failAt \in FailurePoints :
     LET out == clearApiKey(localStorage, apiKeyState, failAt)
     IN  /\ localStorage' = out.storage
         /\ apiKeyState' = out.state
         /\ lastCall' = Called("clearApiKey", failAt # 0, out.threw, out.emitted)
         /\ cleared' = IF failAt = 0 \/ cleared = "written" THEN "written" ELSE "attempted"
         /\ saved' = <<>>
         /\ UNCHANGED envApiKey
         /\ UNCHANGED <<mutationVars, pureVars>>

\* a fresh browser: the storage is empty, and the module load gives the
\* credential of the build
InitStore ==
  /\ localStorage = <<>>
  /\ envApiKey \in EnvKeys
  /\ apiKeyState = getStoredApiKey(localStorage, envApiKey, 0)
  /\ lastCall = Called("load", FALSE, FALSE, FALSE)
  /\ cleared = "none"
  /\ saved = <<>>
  /\ PureIdle
  /\ MutationIdle

NextStore == Load \/ SetApiKey \/ SaveApiKey \/ ClearApiKey

SpecStore == InitStore /\ [][NextStore]_vars

(***************************************************************************)
(* The submissions with the Reset button of the header (header.tsx)        *)
(***************************************************************************)
\* handleResetApiKey: clearApiKey(), which swallows a storage failure, then
\* queryClient.clear(), which empties the query cache and cancels no run
handleResetApiKey ==
  \E failAt \in FailurePoints :
     LET out == clearApiKey(localStorage, apiKeyState, failAt)
     IN  /\ localStorage' = out.storage
         /\ apiKeyState' = out.state
         /\ lastCall' = Called("clearApiKey", failAt # 0, out.threw, out.emitted)
         /\ cleared' = IF failAt = 0 \/ cleared = "written" THEN "written" ELSE "attempted"
         /\ saved' = <<>>
         /\ cache' = <<>>
         /\ stale' = {}
         /\ sinceClear' = "clean"
         /\ UNCHANGED <<family, apiKey, inv, envApiKey, pureVars>>

NextReset ==
  \/ \E i \in Slots, id \in family : Mutate(i, id)
  \/ \E i \in Slots : Retry(i)
  \/ \E i \in Slots, ok \in BOOLEAN : HashSettles(i, ok)
  \/ \E i \in Slots, ok \in BOOLEAN : ReadSettles(i, ok)
  \/ \E i \in Slots, outcome \in Outcomes : Respond(i, outcome)
  \/ \E key \in DOMAIN cache : Evict(key)
  \/ handleResetApiKey

SpecReset == Init /\ [][NextReset]_vars

(***************************************************************************)
(* Vocabulary of the properties                                            *)
(***************************************************************************)
\* the current run of mutationFn has returned a Result
Returned(s) == s.pc = "done"

\* the current run of mutationFn has thrown
Thrown(s) == s.pc \in {"retrywait", "failed"}

Finished(s) == Returned(s) \/ Thrown(s)

\* the current run has looked its key up in the cache
LookedUp(s) == s.key # NoKey

\* the lookup of the current run found no entry
Missed(s) == LookedUp(s) /\ s.seen = <<>>

\* the lookup of the current run found an entry
Hit(s) == s.seen # <<>>

\* the current run threw before the entry point sent a request
FailedBeforeRequest(s) ==
  /\ Thrown(s)
  /\ s.error \in {"ZodError:apiKey", "Error:Failed to read file", "ZodError:payload"}

\* this step is the cache lookup of a run of slot j
LookupStep(j) ==
  /\ inv'[j] # inv[j]
  /\ inv[j].pc \in {"idle", "retrywait", "hashing"}
  /\ LookedUp(inv'[j])

\* this step ends a run of slot i
FinishStep(i) == inv'[i] # inv[i] /\ Finished(inv'[i])

\* the entry the run of slot i returned is in the cache
StillCached(i) ==
  /\ Returned(inv[i])
  /\ inv[i].key \in DOMAIN cache
  /\ cache[inv[i].key] = inv[i].result

\* the two files have the same bytes
SameBytes(f, g) ==
  /\ f.size = g.size
  /\ \A n \in 0..(f.size - 1) : ByteAt(f, n) = ByteAt(g, n)

\* the two files have the same first 8192 bytes
SameSample(f, g) ==
  \A n \in 0..8191 :
     /\ n < f.size <=> n < g.size
     /\ n < f.size => ByteAt(f, n) = ByteAt(g, n)

\* a Result as section 3 of the specification requires it
ValidResult(r) ==
  /\ r.processingTime > 0
  /\ "pages" \in DOMAIN r => r.pages \in Nat \ {0}

C2_Original ==
  [][\A i \in Slots :
       FinishStep(i) /\ Missed(inv'[i]) =>
         /\ inv'[i].calls = 1
         /\ Returned(inv'[i]) =>
              /\ inv'[i].key \in DOMAIN cache'
              /\ cache'[inv'[i].key] = inv'[i].result]_vars

\* C2: a run that finds no entry under the input's key makes at most one
\* external call, and exactly one unless it throws before the request (API
\* key validation, file read or payload validation); the Result it returns
\* came from that call and is the entry stored under the key right after it.
C2_CacheMiss ==
  [][\A i \in Slots :
       FinishStep(i) /\ Missed(inv'[i]) =>
         /\ inv'[i].calls <= 1
         /\ inv'[i].calls = 1 <=> ~FailedBeforeRequest(inv'[i])
         /\ Returned(inv'[i]) =>
              /\ inv'[i].calls = 1
              /\ inv'[i].key \in DOMAIN cache'
              /\ cache'[inv'[i].key] = inv'[i].result]_vars

\* one run missed, called once and stored what it returned; another missed
\* and threw before any request
C2_Witness ==
  \E i, j \in Slots :
     /\ Returned(inv[i]) /\ Missed(inv[i]) /\ inv[i].calls = 1
     /\ inv[i].key \in DOMAIN cache /\ cache[inv[i].key] = inv[i].result
     /\ Missed(inv[j]) /\ FailedBeforeRequest(inv[j]) /\ inv[j].calls = 0

(***************************************************************************)
(* C3                                                                      *)
(***************************************************************************)
\* C3: a step in which a run fails records the error for the caller and
\* leaves the cache as it was, and the only step of a run that writes the
\* cache is the one in which the awaited external call has succeeded and
\* its result passed the check.
C3_FailureWritesNothing ==
  [][\A i \in Slots :
       inv'[i] # inv[i] =>
         /\ Thrown(inv'[i]) => inv'[i].error # "none" /\ cache' = cache
         /\ cache' # cache =>
              /\ inv[i].pc = "calling"
              /\ Returned(inv'[i])
              /\ ValidResult(inv'[i].result)
              /\ cache' = setQueryData(cache, inv[i].key, inv'[i].result)]_vars

\* the external call failed for one submission and the result check for
\* another, both gave up, and the cache has no entry
C3_Witness ==
  \E i, j \in Slots :
     /\ inv[i].pc = "failed" /\ inv[i].error = "ExternalCallError"
     /\ inv[j].pc = "failed" /\ inv[j].error = "ZodError:result"
     /\ inv[i].calls = 1 /\ inv[j].calls = 1
     /\ cache = <<>>

(***************************************************************************)
(* C4                                                                      *)
(***************************************************************************)
\* payload-equivalent as the claim has it: the same variant and an identical
\* URL, an identical base64 string or, for files, byte-identical content
PayloadEquivalent ==
  [a \in InputIds, b \in InputIds |->
     LET x == Inputs[a]
         y == Inputs[b]
     IN  /\ x.type = y.type
         /\ CASE x.type \in {"url-document", "url-image"} -> x.url = y.url
              [] x.type \in {"base64-document", "base64-image"} -> x.base64 = y.base64
              [] x.type = "file" -> SameBytes(x.file, y.file)]

\* the same payload as the key generator sees it: for files the name and the
\* declared type are the same as well
SamePayload ==
  [a \in InputIds, b \in InputIds |->
     /\ PayloadEquivalent[a, b]
     /\ Inputs[a].type = "file" =>
          /\ Inputs[a].file.name = Inputs[b].file.name
          /\ Inputs[a].file.type = Inputs[b].file.type]

\* two submissions with equivalent inputs get the same key, and the lookup
\* of the second, made while the entry the first returned is in the cache,
\* is answered with that entry and no external call
ServedFromCache(Equivalent) ==
  \A i, j \in Slots :
     (/\ i # j
      /\ inv'[i].input # "none"
      /\ inv'[j].input # "none"
      /\ Equivalent[inv'[i].input, inv'[j].input]) =>
       /\ LookedUp(inv'[i]) /\ LookedUp(inv'[j]) => inv'[i].key = inv'[j].key
       /\ StillCached(i) /\ LookupStep(j) =>
            /\ Returned(inv'[j])
            /\ inv'[j].result = inv[i].result
            /\ inv'[j].calls = 0

\* C4 as stated: two orchestrator calls whose inputs are payload-equivalent
\* (byte-identical content or identical URL) get identical cache keys, and
\* once the first has succeeded and its entry has not been evicted the
\* second is served the cached Result without an external call.
C4_Original == [][ServedFromCache(PayloadEquivalent)]_vars

\* C4: two orchestrator calls of the same variant with an identical URL, an
\* identical base64 string, or files of the same name, declared type, size
\* and bytes get identical cache keys, and once the first has succeeded and
\* its entry has not been evicted the second is served the cached Result
\* without an external call.
C4_SamePayloadSameEntry == [][ServedFromCache(SamePayload)]_vars

\* two File objects that differ in lastModified only: the first was read,
\* sent and stored, the second was served that entry
C4_Witness ==
  \E i, j \in Slots :
     /\ i # j
     /\ inv[i].input # "none" /\ inv[j].input # "none"
     /\ inv[i].input # inv[j].input
     /\ SamePayload[inv[i].input, inv[j].input]
     /\ Returned(inv[i]) /\ Missed(inv[i])
     /\ Returned(inv[j]) /\ Hit(inv[j])
     /\ inv[j].result = inv[i].result
     /\ inv[j].calls = 0

(***************************************************************************)
(* C5                                                                      *)
(***************************************************************************)
\* both keys of the pair are computed and both inputs are files
FilePairKeyed ==
  /\ keys # <<>>
  /\ keys[1] # NoKey /\ keys[2] # NoKey
  /\ IsFile(pair[1]) /\ IsFile(pair[2])

\* the two files have the same name, size and first 8192 bytes
SameNameSizeSample(f, g) ==
  /\ f.name = g.name
  /\ f.size = g.size
  /\ SameSample(f, g)

\* C5 as stated: two file inputs with the same name, the same size and the
\* same first 8192 bytes get identical keys, whatever their timestamps.
C5_Original ==
  FilePairKeyed =>
    (SameNameSizeSample(Inputs[pair[1]].file, Inputs[pair[2]].file)
       => keys[1] = keys[2])

\* C5: two file inputs with the same name, the same declared type, the same
\* size and the same first 8192 bytes get identical keys, whatever their
\* timestamps and whatever their bytes after the first 8192.
C5_FileKeyIgnoresTimestamp ==
  FilePairKeyed =>
    LET f == Inputs[pair[1]].file
        g == Inputs[pair[2]].file
    IN  SameNameSizeSample(f, g) /\ f.type = g.type => keys[1] = keys[2]

\* two files that differ in lastModified and in a byte after the sample got
\* the same key
C5_Witness ==
  /\ FilePairKeyed
  /\ LET f == Inputs[pair[1]].file
         g == Inputs[pair[2]].file
     IN  /\ SameNameSizeSample(f, g) /\ f.type = g.type
         /\ f.lastModified # g.lastModified
         /\ ~SameBytes(f, g)
         /\ keys[1] = keys[2]

(***************************************************************************)
(* C6                                                                      *)
(***************************************************************************)
\* C6 as stated: the digest of a string of at most 40 characters is the
\* string itself.
C6_Original == digest # <<>> /\ Len(text) <= 40 => digest[1] = text

\* C6: the digest of a string of fewer than 40 characters is the string
\* itself.
C6_ShortDigestIsIdentity == digest # <<>> /\ Len(text) < 40 => digest[1] = text

\* a string of 39 characters came back unchanged
C6_Witness == digest # <<>> /\ Len(text) = 39 /\ digest[1] = text

(***************************************************************************)
(* C7                                                                      *)
(***************************************************************************)
\* the run of slot i started for a key that had no entry, before the run of
\* slot j had stored a result under it
StartedBeforeStore(i, j) ==
  /\ inv[i].pc # "idle"
  /\ ~inv[i].cachedAtStart
  /\ j \notin inv[i].storedBefore

\* C7 as stated: two runs for the same uncached key that both started before
\* either had stored its result both reach the external OCR API.
C7_Original ==
  \A i, j \in Slots :
     (/\ i # j
      /\ StartedBeforeStore(i, j) /\ StartedBeforeStore(j, i)
      /\ KeyOf[inv[i].input] = KeyOf[inv[j].input]
      /\ Finished(inv[i]) /\ Finished(inv[j])) =>
       inv[i].calls >= 1 /\ inv[j].calls >= 1

\* C7: requests for one key are never coalesced: of two runs for the same
\* key whose lookups both found no entry (as they do when both look the key
\* up before either has stored its result), each one that passes the API key
\* check, the file read and the payload validation sends its own request to
\* the external OCR API, also while the request of the other is in flight.
C7_NotCoalesced ==
  \A i, j \in Slots :
     (/\ i # j
      /\ Missed(inv[i]) /\ Missed(inv[j])
      /\ inv[i].key = inv[j].key
      /\ inv[i].pc # "reading" /\ ~FailedBeforeRequest(inv[i])
      /\ inv[j].pc # "reading" /\ ~FailedBeforeRequest(inv[j])) =>
       inv[i].calls = 1 /\ inv[j].calls = 1

\* two requests for one key are in flight at once
C7_Witness ==
  \E i, j \in Slots :
     /\ i # j
     /\ inv[i].pc = "calling" /\ inv[j].pc = "calling"
     /\ inv[i].key = inv[j].key
     /\ inv[i].calls = 1 /\ inv[j].calls = 1

(***************************************************************************)
(* C8                                                                      *)
(***************************************************************************)
\* C8 as stated: once a Result is stored under a key, the value under that
\* key is never replaced or changed until the entry is evicted or the cache
\* is cleared.
C8_WriteOnce ==
  [][\A k \in DOMAIN cache \cap DOMAIN cache' : cache'[k] = cache[k]]_vars

(***************************************************************************)
(* C9                                                                      *)
(***************************************************************************)
\* the payload of the input is one its entry point must refuse: a URL that
\* is not an http/https URL with the required extension, or base64 text
\* shorter than the minimum length or outside the base64 alphabet
MustRefuse ==
  [id \in InputIds |->
     LET call == AdapterCall(Inputs[id])
     IN  CASE call.entry = "processDocumentUrl" -> ~pdfUrlSchema(call.payload)
           [] call.entry = "processImageUrl" -> ~imageUrlSchema(call.payload)
           [] call.entry \in {"processBase64Document", "processBase64Image"} ->
                \/ Len(call.payload) < BASE64_MIN_LENGTH
                \/ ~Base64Regex(call.payload)]

\* C9: an entry point that is given an invalid payload throws a validation
\* error and sends no request to the external OCR API.
C9_ValidatesFirst ==
  \A i \in Slots :
     inv[i].entry # "none" /\ MustRefuse[inv[i].input] =>
       /\ Thrown(inv[i])
       /\ inv[i].error = "ZodError:payload"
       /\ inv[i].calls = 0

\* two different entry points have each refused a payload
C9_Witness ==
  \E i, j \in Slots :
     /\ inv[i].entry # "none" /\ inv[j].entry # "none"
     /\ inv[i].entry # inv[j].entry
     /\ MustRefuse[inv[i].input] /\ MustRefuse[inv[j].input]
     /\ inv[i].error = "ZodError:payload" /\ inv[j].error = "ZodError:payload"
     /\ inv[i].calls = 0 /\ inv[j].calls = 0

(***************************************************************************)
(* C10                                                                     *)
(***************************************************************************)
\* C10: every Result a run returned and every Result in the cache has
\* processingTime > 0 and, when pages is present, a positive integer pages.
C10_ResultsAreValid ==
  /\ \A i \in Slots : inv[i].result # Undefined => ValidResult(inv[i].result)
  /\ \A k \in DOMAIN cache : ValidResult(cache[k])

\* a response measured at 0 ms or without a page was refused for one
\* submission while another returned a Result with a page count
C10_Witness ==
  \E i, j \in Slots :
     /\ Thrown(inv[i]) /\ inv[i].error = "ZodError:result" /\ inv[i].result = Undefined
     /\ Returned(inv[j]) /\ "pages" \in DOMAIN inv[j].result
     /\ inv[j].key \in DOMAIN cache

(***************************************************************************)
(* C11                                                                     *)
(***************************************************************************)
\* no page of the response carries text that is not blank: the page list is
\* absent or empty, or every markdown is empty or whitespace
NoPageHasText(response) ==
  \/ "pages" \notin DOMAIN response
  \/ \A p \in 1..Len(response.pages) :
        \A c \in 1..Len(response.pages[p].markdown) :
           IsWhitespace(response.pages[p].markdown[c])

\* C11 as stated: for every successful response of the external OCR API in
\* which no page carries non-blank text (the call having taken a measurable
\* time), the entry point returns a Result whose text is a placeholder
\* sentinel.
C11_Sentinel ==
  (/\ returned # <<>>
   /\ answer.kind = "ok"
   /\ answer.elapsed > 0
   /\ NoPageHasText(answer.response)) =>
    /\ returned[1].ok
    /\ returned[1].result.text \in {NO_TEXT_EXTRACTED, NO_TEXT_FOUND}

(***************************************************************************)
(* C12                                                                     *)
(***************************************************************************)
InputTypes == {"url", "base64", "unknown"}

ContentTypes == {"pdf", "image", "unknown"}

\* d has the three fields of a Detection Result, with a kind of input, a kind
\* of content and a text for a value
IsDetectionResult(d) ==
  /\ DOMAIN d = {"inputType", "contentType", "value"}
  /\ d.inputType \in InputTypes
  /\ d.contentType \in ContentTypes
  /\ DOMAIN d.value = 1..Len(d.value)

\* C12: whatever text detectInputType is given, what it returns is a
\* Detection Result, and for a text that is empty or holds only whitespace
\* the result has inputType unknown and contentType unknown.
C12_Total ==
  detected # <<>> =>
    /\ IsDetectionResult(detected[1])
    /\ ~trimNonEmpty(typed) =>
         /\ detected[1].inputType = "unknown"
         /\ detected[1].contentType = "unknown"

\* whitespace alone has been classified
C12_Witness ==
  /\ detected # <<>>
  /\ Len(typed) > 0
  /\ \A i \in 1..Len(typed) : IsWhitespace(typed[i])

(***************************************************************************)
(* C13                                                                     *)
(***************************************************************************)
\* u ends in one of the extensions, optionally followed by a query string:
\* u is some text, the extension in any case, then nothing or "?" and a rest
EndsInExtension(u, extensions) ==
  \E cut \in 1..Len(u) :
     /\ \E ext \in extensions :
          /\ cut >= Len(ext)
          /\ toLowerCase(SubSeq(u, cut - Len(ext) + 1, cut)) = ext
     /\ cut = Len(u) \/ u[cut + 1] = "?"

\* the content type the statement gives to the URL u
UrlContentType(u) ==
  IF EndsInExtension(u, {PDF_EXTENSION}) THEN "pdf"
  ELSE IF EndsInExtension(u, DetectImageExtensions) THEN "image"
  ELSE "unknown"

HTTPS_A_COM_X == <<"h","t","t","p","s",":","/","/","a",".","c","o","m","/","x">>

\* C13: when the trimmed text is an absolute http or https URL, the result
\* is inputType url with the trimmed text for a value, and contentType pdf
\* when the URL ends in .pdf (in any case, a query string may follow), image
\* when it ends so in png, jpg, jpeg, avif, webp or gif, unknown otherwise;
\* https://a.com/x.pdf is url/pdf, https://a.com/x.png?q=1 is url/image and
\* https://a.com/x is url/unknown.
C13_UrlClassified ==
  detected # <<>> =>
    /\ urlSchema(trim(typed)) =>
         detected[1] = [inputType |-> "url",
                        contentType |-> UrlContentType(trim(typed)),
                        value |-> trim(typed)]
    /\ typed = HTTPS_A_COM_X \o <<".","p","d","f">> =>
         detected[1].inputType = "url" /\ detected[1].contentType = "pdf"
    /\ typed = HTTPS_A_COM_X \o <<".","p","n","g","?","q","=","1">> =>
         detected[1].inputType = "url" /\ detected[1].contentType = "image"
    /\ typed = HTTPS_A_COM_X =>
         detected[1].inputType = "url" /\ detected[1].contentType = "unknown"

\* a padded URL with an image extension and a query string has been classified
C13_Witness ==
  /\ detected # <<>>
  /\ typed # trim(typed)
  /\ trim(typed) = HTTPS_A_COM_X \o <<".","p","n","g","?","q","=","1">>
  /\ detected[1].contentType = "image"

(***************************************************************************)
(* C14                                                                     *)
(***************************************************************************)
\* t consists of characters of the base64 alphabet, at least one, with
\* optional "=" padding behind them
AlphabetThenPadding(t) ==
  \E n \in 1..Len(t) :
     /\ \A i \in 1..n : t[i] \in Base64Chars
     /\ \A i \in (n + 1)..Len(t) : t[i] = "="

\* the content type the statement gives to the raw base64 text t
SignatureContentType(t) ==
  IF startsWith(t, <<"J","V","B","E","R","i","0">>) THEN "pdf"
  ELSE IF \/ startsWith(t, <<"i","V","B","O","R","w","0","K","G","g","o">>)
          \/ startsWith(t, <<"/","9","j","/">>)
          \/ startsWith(t, <<"R","0","l","G","O","D">>) THEN "image"
  ELSE "unknown"

\* the trimmed text is neither an http/https URL nor a data URL
NeitherUrlNorDataUrl(t) == ~urlSchema(t) /\ ~dataUrlSchema(t)

MarkerPositions(t) ==
  {k \in (Len(DATA_SCHEME) + 2)..(Len(t) - Len(BASE64_MARKER)) :
     /\ startsWith(t, DATA_SCHEME)
     /\ SubSeq(t, k, k + Len(BASE64_MARKER) - 1) = BASE64_MARKER}

\* t is data:<mime>;base64,<payload>
IsDataUrlForm(t) == MarkerPositions(t) # {}

FirstMarker(t) == CHOOSE k \in MarkerPositions(t) : \A j \in MarkerPositions(t) : k <= j

\* the <mime> of t, up to the first ";base64,"
MimeOf(t) == SubSeq(t, Len(DATA_SCHEME) + 1, FirstMarker(t) - 1)

\* the <payload> of t, what follows the first ";base64,"
PayloadOf(t) == SubSeq(t, FirstMarker(t) + Len(BASE64_MARKER), Len(t))

\* the content type the statement gives to a mime
MimeContentType(mime) ==
  IF startsWith(mime, <<"i","m","a","g","e","/">>) THEN "image"
  ELSE IF mime = <<"a","p","p","l","i","c","a","t","i","o","n","/","p","d","f">> THEN "pdf"
  ELSE "unknown"

\* what the statement says detectInputType returns for the data URL t
DataUrlDetection(t) ==
  [inputType |-> "base64", contentType |-> MimeContentType(MimeOf(t)), value |-> PayloadOf(t)]

\* C15 as stated: for every trimmed text of the form
\* data:<mime>;base64,<payload> that is not an http/https URL, the result is
\* inputType base64, the payload alone for a value, and contentType image
\* for a mime starting with image/, pdf for application/pdf, unknown
\* otherwise.
C15_Original ==
  (detected # <<>> /\ IsDataUrlForm(trim(typed)) /\ ~urlSchema(trim(typed))) =>
    detected[1] = DataUrlDetection(trim(typed))

\* the mime holds no ";" and the payload no line break
IsSingleLineDataUrl(t) ==
  /\ IsDataUrlForm(t)
  /\ \A i \in 1..Len(MimeOf(t)) : MimeOf(t)[i] # ";"
  /\ \A i \in 1..Len(PayloadOf(t)) : PayloadOf(t)[i] \notin {"\n", "\r"}

\* C15, amended: the same for every trimmed text of that form whose mime
\* holds no ";" and whose payload holds no line break; a text of the form
\* with a ";" in the mime or a line break in the payload is classified
\* unknown/unknown.
C15_DataUrlClassified ==
  (detected # <<>> /\ IsDataUrlForm(trim(typed)) /\ ~urlSchema(trim(typed))) =>
    IF IsSingleLineDataUrl(trim(typed))
      THEN detected[1] = DataUrlDetection(trim(typed))
      ELSE detected[1].inputType = "unknown" /\ detected[1].contentType = "unknown"

\* a padded data URL of a PDF has been classified, its value the payload
C15_Witness ==
  /\ detected # <<>>
  /\ typed # trim(typed)
  /\ IsSingleLineDataUrl(trim(typed))
  /\ detected[1].contentType = "pdf"
  /\ detected[1].value = <<"Q","U","J","D">>

(***************************************************************************)
(* C16                                                                     *)
(***************************************************************************)
TWO_HTTP_URLS ==
  <<"s","e","e"," ","h","t","t","p",":","/","/","a",".","c","o","m","/","x",".","p","d","f",
    " ","a","n","d"," ","h","t","t","p",":","/","/","b",".","c","o","m","/","y",".","p","n","g">>

ONE_HTTP_URL == <<"h","t","t","p",":","/","/","a",".","c","o","m","/","x",".","p","d","f">>

\* C16: hasMultipleUrls returns true exactly when the matches of the full
\* http(s):// URLs, of the www. domains in the text that remains and of the
\* bare domain/path.extension occurrences in the text that remains then are
\* more than one in total: it is true for two http URLs separated by
\* whitespace and false for a single http URL.
C16_MoreThanOneMatch ==
  multiple # <<>> =>
    /\ \A c \in UrlCountCases :
         trim(typed) = c.text => (multiple[1] <=> c.full + c.www + c.bare > 1)
    /\ typed = TWO_HTTP_URLS => multiple[1]
    /\ typed = ONE_HTTP_URL => ~multiple[1]
    /\ (trim(typed) \in UrlTexts /\ urlSchema(trim(typed))) => ~multiple[1]

\* the two URLs of the example have been counted
C16_Witness ==
  /\ multiple # <<>>
  /\ typed = TWO_HTTP_URLS
  /\ multiple[1]

(***************************************************************************)
(* C17                                                                     *)
(***************************************************************************)
\* the last operation was a load of the stored credential
Loaded == lastCall.op = "load"

C18_FailuresScoped ==
  [][/\ (lastCall'.op = "saveApiKey" /\ lastCall'.failed) =>
          /\ lastCall'.threw
          /\ ~lastCall'.emitted
          /\ apiKeyState' = apiKeyState
     /\ (lastCall'.op = "clearApiKey" /\ lastCall'.failed) => ~lastCall'.threw]_vars

\* a save has failed while a credential was in memory, and thrown
C18_Witness ==
  /\ lastCall.op = "saveApiKey"
  /\ lastCall.failed
  /\ lastCall.threw
  /\ apiKeyState # ""

(***************************************************************************)
(* C19                                                                     *)
(***************************************************************************)
\* every key in the cache and every key a run has computed begins with the
\* namespace token
KeysBeginWithOcr ==
  /\ \A k \in DOMAIN cache : Len(k) >= 1 /\ k[1] = "ocr"
  /\ \A i \in Slots : LookedUp(inv[i]) => inv[i].key[1] = "ocr"

\* clearAll has run and no run has stored a result since: the cache is empty
EmptyAfterClearAll == sinceClear = "clean" => cache = <<>>

ValidationErrors == {"ZodError:payload", "ZodError:apiKey"}

\* C20 as stated: a submission whose run fails with a validation error is
\* not run a second time: the error of its first run is reported to the
\* caller.
C20_NeverRetried ==
  \A i \in Slots :
     (Thrown(inv[i]) /\ inv[i].error \in ValidationErrors) =>
        /\ inv[i].attempt = 0
        /\ inv[i].pc = "failed"

(***************************************************************************)
(* C21                                                                     *)
(***************************************************************************)
\* the input is a file that neither file schema accepts
WrongTypeFile(id) ==
  /\ IsFile(id)
  /\ ~pdfFileSchema(Inputs[id].file)
  /\ ~imageFileSchema(Inputs[id].file)

\* C21 as stated: a submission of a file that is neither a valid PDF nor a
\* valid image sends no request to the external OCR API and returns no
\* Result: a run of it whose file reads succeed throws a validation error.
C21_WrongFileRefused ==
  \A i \in Slots :
     (inv[i].input # "none" /\ WrongTypeFile(inv[i].input)) =>
        /\ inv[i].calls = 0
        /\ inv[i].pc # "calling"
        /\ ~Returned(inv[i])
        /\ (Thrown(inv[i]) /\ inv[i].error \notin {"NotReadableError", "Error:Failed to read file"}) =>
              inv[i].error \in {"ZodError:payload", "ZodError:apiKey"}


\* ---------------------------------------------------------------------------
\* C22  Every run of mutationFn goes key, lookup, then either the return of
\* the entry found or call, store, return: a request is sent only by a run
\* that has looked its computed key up and missed, an entry enters the cache
\* only in the step in which the awaited request of a run returns, under that
\* run's key, and a file has had at most its first 8192 bytes read at the
\* lookup, the full read happening only after a miss.
\* ---------------------------------------------------------------------------

\* this step writes the entry of key k into the cache
StoreStep(k) ==
  /\ k \in DOMAIN cache'
  /\ k \notin DOMAIN cache \/ cache'[k] # cache[k]

C22_Ordered ==
  [][\A i \in Slots :
       LET s == inv[i]
           t == inv'[i]
       IN  /\ t.calls > s.calls =>
                 /\ Missed(t)
                 /\ t.key = KeyOf[t.input]
           /\ (t # s /\ Returned(t)) =>
                 \/ Hit(t) /\ t.calls = 0 /\ t.encoded = 0 /\ t.result = t.seen[1]
                           /\ cache' = cache
                 \/ Missed(t) /\ s.pc = "calling" /\ t.calls = 1
                              /\ t.key \in DOMAIN cache' /\ cache'[t.key] = t.result
           /\ (LookupStep(i) /\ IsFile(t.input)) =>
                 /\ s.pc = "hashing"
                 /\ t.sampled <= 8192
                 /\ t.sampled <= Inputs[t.input].file.size
                 /\ t.encoded = 0
           /\ t.encoded > 0 => Missed(t) /\ t.sampled > 0
           /\ \A k \in DOMAIN cache' :
                 StoreStep(k) =>
                    \E j \in Slots : /\ inv[j].pc = "calling"
                                     /\ inv[j].key = k
                                     /\ Returned(inv'[j])
                                     /\ inv'[j].result = cache'[k]]_vars

\* a file longer than the sample has been read in full after a miss, sent and
\* stored
C22_Witness ==
  \E i \in Slots :
     /\ Returned(inv[i])
     /\ Missed(inv[i])
     /\ inv[i].input = "fileBig"
     /\ inv[i].sampled = 8192
     /\ inv[i].encoded > 8192
     /\ StillCached(i)


\* ---------------------------------------------------------------------------
\* C23  generateFileHash reads the first min(8192, size) bytes and no more;
\* after every byte its accumulator is a 32-bit integer equal, modulo 2^32, to
\* 31 times the previous accumulator plus the byte; it returns
\* '<name>-<size>-<abs(hash) in base 36>'; files of one name and size that
\* agree in their first 8192 bytes get the same result.
\* ---------------------------------------------------------------------------

\* the number a text of base-36 digits denotes, below 2^32
RECURSIVE Value36(_)
Value36(digits) ==
  IF digits = <<>> THEN Int32Zero
  ELSE LET w == Value36(SubSeq(digits, 1, Len(digits) - 1))
           d == CHOOSE n \in 0..35 : Digits36[n + 1] = digits[Len(digits)]
           l == w[2] * 36 + d
       IN  <<w[1] * 36 + (l \div Half), l % Half>>

\* the magnitude of the 32-bit integer with these bits, read as signed
Magnitude(w) == IF w[1] >= 32768 THEN Sub32(Int32Zero, w) ELSE w

C23_HashFold ==
  fold # <<>> =>
    LET file == Inputs[fold.file].file
        head == file.name \o <<"-">> \o Decimal(file.size) \o <<"-">>
    IN  /\ fold.pos <= 8192
        /\ fold.pos <= file.size
        /\ fold.hash \in (0..(Half - 1)) \X (0..(Half - 1))
        /\ fold.hash = fold.reference
        /\ fold.out # <<>> =>
              LET digits == SubSeq(fold.out[1], Len(head) + 1, Len(fold.out[1]))
              IN  /\ fold.pos = 8192 \/ fold.pos = file.size
                  /\ SubSeq(fold.out[1], 1, Len(head)) = head
                  /\ digits # <<>>
                  /\ \A n \in 1..Len(digits) : digits[n] \in Range(Digits36)
                  /\ Len(digits) > 1 => digits[1] # "0"
                  /\ Value36(digits) = Magnitude(fold.reference)
                  /\ fold.out[1] = generateFileHash(file)
                  /\ \A id \in FileIds :
                        LET other == Inputs[id].file
                        IN  (other.name = file.name /\ other.size = file.size
                               /\ SameSample(other, file)) =>
                                generateFileHash(other) = fold.out[1]

\* the loop has run over the 8192 sample bytes of a longer file whose
\* accumulator ended negative, and the result was returned
C23_Witness ==
  /\ fold # <<>>
  /\ fold.out # <<>>
  /\ fold.pos = 8192
  /\ Inputs[fold.file].file.size > 8192
  /\ IsNegative32(fold.hash)


\* ---------------------------------------------------------------------------
\* C24  A string of fewer than 40 characters is its own digest; a longer one
\* has the digest first 20 characters, '-', decimal length, '-', last 20
\* characters; so two strings have the same digest exactly when they are the
\* same string or are both of 40 characters or more with the same length,
\* first 20 and last 20 characters.
\* ---------------------------------------------------------------------------

\* the strings one replacement, deletion or insertion of a character away
Neighbours(s) ==
  LET chars == {"A", "-", "4", "0"}
  IN  {[s EXCEPT ![i] = c] : i \in 1..Len(s), c \in chars}
        \cup {SubSeq(s, 1, i - 1) \o SubSeq(s, i + 1, Len(s)) : i \in 1..Len(s)}
        \cup {SubSeq(s, 1, i) \o <<c>> \o SubSeq(s, i + 1, Len(s)) :
                i \in 0..Len(s), c \in chars}

\* both strings are long and have the same length, beginning and end
AgreeOutside(a, b) ==
  /\ Len(a) >= 40
  /\ Len(b) >= 40
  /\ Len(a) = Len(b)
  /\ SubSeq(a, 1, 20) = SubSeq(b, 1, 20)
  /\ SubSeq(a, Len(a) - 19, Len(a)) = SubSeq(b, Len(b) - 19, Len(b))

C24_DigestEquality ==
  digest # <<>> =>
    /\ Len(text) < 40 => digest[1] = text
    /\ Len(text) >= 40 =>
          digest[1] = SubSeq(text, 1, 20) \o <<"-">> \o Decimal(Len(text)) \o <<"-">>
                        \o SubSeq(text, Len(text) - 19, Len(text))
    /\ \A b \in DigestTexts \cup Neighbours(text) :
          digest[1] = generateBase64Hash(b) <=> (text = b \/ AgreeOutside(text, b))

\* a string of more than 40 characters shares its digest with a different one
C24_Witness ==
  /\ digest # <<>>
  /\ Len(text) > 40
  /\ \E b \in Neighbours(text) : b # text /\ generateBase64Hash(b) = digest[1]


\* ---------------------------------------------------------------------------
\* C25  A run returns the cached entry without a request only when the entry
\* is fresh (written less than 10 minutes ago); a run that finds the entry of
\* its key stale, or finds none, does not return without a request to the
\* external OCR API.
\* ---------------------------------------------------------------------------
C25_FreshOnly ==
  \A i \in Slots :
     (Returned(inv[i]) /\ inv[i].calls = 0) => Hit(inv[i]) /\ ~inv[i].seenStale


\* ---------------------------------------------------------------------------
\* C26  After saveApiKey(k) has returned, the credential in memory and the
\* stored one are k and the cleared flag is absent; until clearApiKey or
\* saveApiKey is called again the storage stays so, whatever setApiKey does
\* to the credential in memory, and a load gives k.
\* ---------------------------------------------------------------------------

\* saveApiKey(k) has returned and neither it nor clearApiKey was called since
SavedHolds ==
  saved # <<>> =>
    /\ getItem(localStorage, API_KEY_STORAGE_KEY) = saved
    /\ getItem(localStorage, API_KEY_CLEARED_FLAG) = <<>>
    /\ lastCall.op = "saveApiKey" => apiKeyState = saved[1]
    /\ lastCall.op = "setApiKey" => apiKeyState \in TypedKeys

\* C26 as stated: every later load yields k.
C26_Original ==
  /\ SavedHolds
  /\ (saved # <<>> /\ lastCall.op = "load") => apiKeyState = saved[1]

\* C26: a load whose storage reads succeed gives k when k is not the empty
\* string and the credential of the build when it is; a load whose storage
\* read fails gives the credential of the build.
C26_SavedIsLoaded ==
  /\ SavedHolds
  /\ (saved # <<>> /\ lastCall.op = "load") =>
        apiKeyState = IF lastCall.failed \/ saved[1] = "" THEN envApiKey ELSE saved[1]

\* a saved key was loaded in a build that carries another credential
C26_Witness ==
  /\ saved = <<"sk-user-one">>
  /\ lastCall.op = "load"
  /\ ~lastCall.failed
  /\ envApiKey = "sk-env"
  /\ apiKeyState = "sk-user-one"


\* ---------------------------------------------------------------------------
\* C27  After the Reset button of the header has cleared the credential and
\* the query cache, the cache never holds a result of a run that was started
\* before the reset, also when that run was awaiting its external call at the
\* time.
\* ---------------------------------------------------------------------------

\* the run of slot i looked its key up before the last reset and stored its
\* result after it: no run has looked a key up since the reset, and the
\* entry is there
StoredAcrossReset(i) ==
  /\ sinceClear = "dirty"
  /\ Missed(inv[i])
  /\ StillCached(i)

C27_ResetIsFinal == \A i \in Slots : ~StoredAcrossReset(i)


\* ---------------------------------------------------------------------------
\* C28  A run for a URL or base64 input whose payload the entry point of its
\* variant refuses never returns a Result, whatever the cache holds: it
\* throws a validation error.
\* ---------------------------------------------------------------------------
C28_InvalidNeverReturns ==
  \A i \in Slots :
     (inv[i].input # "none" /\ ~IsFile(inv[i].input) /\ ~CallOf[inv[i].input].valid) =>
        /\ ~Returned(inv[i])
        /\ Finished(inv[i]) => inv[i].error \in ValidationErrors


\* ---------------------------------------------------------------------------
\* C29  For every text detectInputType classifies as url/pdf, url/image or
\* base64, handleProcessText submits an Input Descriptor, and its payload
\* passes the schema of the entry point the orchestrator sends it to.
\* ---------------------------------------------------------------------------

\* detectInputType classifies the text as one handleProcessText submits
Accepted(t) ==
  LET det == detectInputType(t)
  IN  \/ det.inputType = "url" /\ det.contentType \in {"pdf", "image"}
      \/ det.inputType = "base64"

\* the entry point the submitted descriptor goes to accepts its payload
PassesAdapter(input) ==
  LET call == AdapterCall(input)
  IN  EntryPointValidates(call.entry, call.payload)

\* C29 as stated.
C29_Original ==
  (submitted # <<>> /\ Accepted(typed)) =>
     /\ submitted.input # <<>>
     /\ PassesAdapter(submitted.input[1])

\* C29: the same for every text classified as url/pdf or url/image and for
\* raw base64 text; a data URL is submitted with its payload unchecked, and
\* passes exactly when the payload has 50 characters or more, all of the
\* base64 alphabet with optional "=" padding behind them.
C29_ClassifierAdapterAgree ==
  (submitted # <<>> /\ Accepted(typed)) =>
     /\ submitted.input # <<>>
     /\ IF IsDataUrlForm(trim(typed))
          THEN PassesAdapter(submitted.input[1]) <=>
                  /\ Len(PayloadOf(trim(typed))) >= 50
                  /\ AlphabetThenPadding(PayloadOf(trim(typed)))
          ELSE PassesAdapter(submitted.input[1])

\* a data URL with a payload of 60 base64 characters was submitted as an
\* image and passes
C29_Witness ==
  /\ submitted # <<>>
  /\ submitted.input # <<>>
  /\ IsDataUrlForm(trim(typed))
  /\ submitted.input[1].type = "base64-image"
  /\ Len(submitted.input[1].base64) = 60
  /\ PassesAdapter(submitted.input[1])


\* ---------------------------------------------------------------------------
\* C30  For a file, the kind in the cache key and the entry point of the
\* external call are chosen by the same test: a run with a file-document
\* key calls processBase64Document and a run with a file-image key calls
\* processBase64Image, and an entry is written under a file-document or a
\* file-image key only by a run that called the entry point of that kind.
\* ---------------------------------------------------------------------------

\* the entry point that goes with the kind of a file key
EntryOfKind(key) ==
  IF key[2] = "file-document" THEN "processBase64Document"
  ELSE IF key[2] = "file-image" THEN "processBase64Image"
  ELSE "none"

C30_KindMatchesEntry ==
  [][/\ \A i \in Slots :
          (inv'[i].input # "none" /\ IsFile(inv'[i].input) /\ LookedUp(inv'[i])) =>
             /\ inv'[i].key[2] \in {"file-document", "file-image"}
             /\ inv'[i].key[2] = "file-document" <=> isValidPdfFile(Inputs[inv'[i].input].file)
             /\ inv'[i].entry # "none" => inv'[i].entry = EntryOfKind(inv'[i].key)
             /\ inv'[i].calls > 0 => inv'[i].entry = EntryOfKind(inv'[i].key)
     /\ \A k \in DOMAIN cache' :
          (StoreStep(k) /\ k[2] \in {"file-document", "file-image"}) =>
             \E j \in Slots : /\ inv[j].pc = "calling"
                              /\ inv[j].key = k
                              /\ inv[j].entry = EntryOfKind(k)
                              /\ Returned(inv'[j])]_vars

\* a file that is no PDF was sent through the image entry point and its
\* result stored under a file-image key
C30_Witness ==
  \E i \in Slots :
     /\ StillCached(i) /\ Missed(inv[i])
     /\ IsFile(inv[i].input)
     /\ ~isValidPdfFile(Inputs[inv[i].input].file)
     /\ inv[i].key[2] = "file-image" /\ inv[i].entry = "processBase64Image"
     /\ inv[i].calls = 1

=============================================================================
